---- MODULE Spec2Model ----
(***************************************************************************)
(* Model of the conduit proxy router: the capacity-bounded route cache     *)
(* (router/src/cache.rs), the access nodes and guards (access.rs), the     *)
(* retention policies (retain.rs), the idle tracker (idle.rs) and the      *)
(* router's dispatch (router.rs, lib.rs).                                  *)
(***************************************************************************)
EXTENDS Integers, FiniteSets, Sequences, TLC

(* ---------------------------------------------------------------------- *)
(* Bounds                                                                  *)
(* ---------------------------------------------------------------------- *)
MaxCapacity == 2
MaxClock == 2
MaxAge == 1
MaxTokens == 1
MaxValue == 4
MaxThreads == 2
MaxPolls == 2
MaxResponses == 2

\* The route keys of the router's tests: requests 2 and 3.
Keys == {2, 3}
NoKey == 0
NoGuard == NoKey
NotRecognizedReq == NoKey
Requests == Keys \cup {NotRecognizedReq}

(* ---------------------------------------------------------------------- *)
(* Retention policies (retain.rs) and the cache's built-in policy          *)
(* ---------------------------------------------------------------------- *)
Const(b) == <<"const", b>>
ALWAYS == Const(TRUE)
NEVER == Const(FALSE)
And(a, b) == <<"and", a, b>>
Or(a, b) == <<"or", a, b>>
MaxAccessAge(d) == <<"age", d>>
WhileActive == <<"active">>
MaxIdleAge(d) == <<"max_idle_age", d>>

Ages == 0..MaxAge

\* What decides retention in a sweep.  The cache of cache.rs is built with a
\* max_idle_age and keeps a route that is active or younger than that age
\* (MaxIdleAge); the router of router.rs builds its cache with a Retain
\* policy of retain.rs, which the sweep asks about every route in the same
\* way.
Policies ==
    {MaxIdleAge(d) : d \in Ages}
      \cup {ALWAYS, NEVER, WhileActive}
      \cup {Or(WhileActive, MaxAccessAge(d)) : d \in Ages}

\* idle.rs: the tracker is idle when its counter is zero.
is_idle(route) == route.idle = 0

\* Variant: the tracker is a flag that the first token sets.
active_once(route) == [route EXCEPT !.idle = 1]

\* idle.rs: Idle::active adds one live token.
active(route) == [route EXCEPT !.idle = @ + 1]

\* Variant: dropping an Active leaves the counter as it is.
ActiveDrop_leak(route) == route

\* idle.rs: dropping an Active removes one live token.
ActiveDrop(route) == [route EXCEPT !.idle = @ - 1]

\* The width of the integer that holds an Instant.
InstantBits == 3

\* Instant - Duration, on a timeline without a first instant.
InstantSub(now, d) == now - d

\* Variant: Const retains whatever its flag.
ConstRetain_true(p, node) == TRUE

\* retain.rs: Const::retain
ConstRetain(p, node) == p[2]

\* Variant: the boundary age is excluded.
MaxAccessAgeRetain_exclusive(p, node, now) ==
    node.last_access > InstantSub(now, p[2])

\* retain.rs: MaxAccessAge::retain
MaxAccessAgeRetain(p, node, now) == node.last_access >= InstantSub(now, p[2])

\* The caller's policy |n| !n.value.is_idle().
WhileActiveRetain(node) == ~is_idle(node.value)

RECURSIVE retain(_, _, _)
\* Variant: And asks its first policy only.
AndRetain_first(p, node, now) == retain(p[2], node, now)

\* retain.rs: And::retain
AndRetain(p, node, now) == retain(p[2], node, now) /\ retain(p[3], node, now)

\* Variant: Or asks its second policy only.
OrRetain_second(p, node, now) == retain(p[3], node, now)

\* retain.rs: Or::retain
OrRetain(p, node, now) == retain(p[2], node, now) \/ retain(p[3], node, now)

\* Variant: the sweep looks at the age only.
IdleAgeRetain_age_only(p, node, now) ==
    InstantSub(now, p[2]) < node.last_access

\* cache.rs: the closure of retain_active_and_recent_routes.
IdleAgeRetain(p, node, now) ==
    LET epoch == InstantSub(now, p[2])
    IN  epoch < node.last_access \/ ~is_idle(node.value)

\* Retain::retain, by the kind of policy.
retain(p, node, now) ==
    CASE p[1] = "const" -> ConstRetain(p, node)
      [] p[1] = "and" -> AndRetain(p, node, now)
      [] p[1] = "or" -> OrRetain(p, node, now)
      [] p[1] = "age" -> MaxAccessAgeRetain(p, node, now)
      [] p[1] = "active" -> WhileActiveRetain(node)
      [] p[1] = "max_idle_age" -> IdleAgeRetain(p, node, now)

(* ---------------------------------------------------------------------- *)
(* State                                                                   *)
(* ---------------------------------------------------------------------- *)
VARIABLES
    routes,     \* Cache.routes: key -> [value: [value, idle], last_access]
    capacity,   \* Cache.capacity
    policy,     \* Cache.max_idle_age, or the Retain policy of the cache
    clock,      \* the time source's current reading
    guard,      \* key of the entry borrowed by a live AccessGuard, or NoGuard
    ret,        \* the last operation and what it returned
    actives,    \* thread -> key -> the live Active tokens the thread holds
                \* of the tracker of the handler under the key
    future,     \* the ResponseFuture in the caller's hands: its State
    single,     \* Single.0: "Some" while the service has not been bound
    wrap,       \* key -> the request tokens, pending Respond futures and
                \* response tokens of the HttpIdle handler under the key
    calls,      \* thread -> where its Router::call stands, with its locals
    lock,       \* the thread that holds the cache mutex, or NoThread
    sweep       \* the retention sweep in progress: the thread that runs it,
                \* the entries its retain loop has not reached yet, key ->
                \* the tokens live when it began, and key -> those of them
                \* that are still live

vars == <<routes, capacity, policy, clock, guard, ret, actives, future,
          single, wrap, calls, lock, sweep>>

\* What the cache's and the router's operations leave alone.
aux == <<actives, future, sweep>>

\* The factory, the activity wrapper and the calls in progress on clones.
ext == <<single, wrap, calls, lock>>

len(rs) == Cardinality(DOMAIN rs)

\* What the last step was: the operation, its key, the tag and number of
\* what it returned (for a guard: the last_access it found), the number of
\* routes when it began, how many routes its sweep removed, and for a store
\* that inserted: whether the key was there just before the insertion and
\* the token count of the handler; for a call of the router: whether it
\* took the cache lock, invoked bind_service, got a route from it, and
\* handed the request to a handler; for an operation on a shared tracker:
\* the thread that made it; for a poll of a future: what the handler's
\* future returned.
Event(op, key, tag, n, l, swept, had, idle) ==
    [op |-> op, key |-> key, tag |-> tag, n |-> n, len |-> l,
     swept |-> swept, had |-> had, idle |-> idle,
     locked |-> FALSE, bound |-> FALSE, made |-> FALSE, called |-> FALSE,
     thread |-> 0, inner |-> "none"]

NoEvent(l) == Event("none", NoKey, "Ok", 0, l, 0, FALSE, 0)

\* cache.rs: Access { value, last_access }
Node(value, last_access) == [value |-> value, last_access |-> last_access]

\* tests::MultiplyAndAssign
MultiplyAndAssign(v, tokens) == [value |-> v, idle |-> tokens]

\* The threads that share a tracker.
Threads == 1..MaxThreads

\* No thread holds a token.
NoActives == [t \in Threads |-> [k \in Keys |-> 0]]

\* router.rs: State of a ResponseFuture; n is the capacity of NoCapacity or
\* the value the handler answers.  With it: how often the future has been
\* polled, and whether the handler's future has resolved.
State(tag, n) == [state |-> tag, n |-> n, polls |-> 0, resolved |-> FALSE]

\* No future is in the caller's hands.
NoFuture == State("None", 0)

\* No thread: the cache mutex is free.
NoThread == 0

\* No sweep is running.
NoSweep ==
    [by |-> NoThread, todo |-> {}, began |-> [k \in Keys |-> 0],
     old |-> [k \in Keys |-> 0]]

\* http_idle.rs: what is alive of an HttpIdle handler's traffic.
NoWrap == [k \in Keys |-> [requests |-> 0, responds |-> 0, responses |-> 0]]

\* The local `service` of Router::call before bind_service has given one.
NoService == MultiplyAndAssign(0, 0)

\* A thread that is not in Router::call.
NoCall == [pc |-> "idle", req |-> NoKey, service |-> NoService,
           tag |-> "None"]

\* The parts of the state that a router with the test factory, called from
\* one thread at a time with unwrapped handlers, does not have.
NoExt ==
    /\ single = "None"
    /\ wrap = NoWrap
    /\ calls = [t \in Threads |-> NoCall]
    /\ lock = NoThread

Init ==
    /\ routes = << >>
    /\ capacity \in 0..MaxCapacity
    /\ policy \in Policies
    /\ clock = 0
    /\ guard = NoGuard
    /\ ret = Event("new", NoKey, "Ok", 0, 0, 0, FALSE, 0)
    /\ actives = NoActives
    /\ future = NoFuture
    /\ sweep = NoSweep
    /\ NoExt

(* ---------------------------------------------------------------------- *)
(* Cache operations as functions of the cache state                        *)
(* ---------------------------------------------------------------------- *)
\* Variant: the sweep stops as soon as one slot is free.
retain_until_one_freed(rs, p, now) ==
    LET rejected == {k \in DOMAIN rs : ~retain(p, rs[k], now)}
    IN  IF rejected = {}
        THEN rs
        ELSE LET gone == CHOOSE k \in rejected : \A j \in rejected : k <= j
             IN  [k \in DOMAIN rs \ {gone} |-> rs[k]]

\* IndexMap::retain with the cache's retention predicate.
retain_active_and_recent_routes(rs, p, now) ==
    LET kept == {k \in DOMAIN rs : retain(p, rs[k], now)}
    IN  [k \in kept |-> rs[k]]

\* Variant: the sweep runs whether or not a slot is free.
ensure_can_store_always_sweeps(rs, cap, p, now) ==
    LET swept == retain_active_and_recent_routes(rs, p, now)
        avail == cap - len(swept)
    IN  IF avail = 0
        THEN [routes |-> swept, tag |-> "Exhausted", n |-> cap]
        ELSE [routes |-> swept, tag |-> "Ok", n |-> avail]

\* Variant: the free slots are recomputed from the length before the sweep.
ensure_can_store_stale_len(rs, cap, p, now) ==
    LET avail == cap - len(rs)
    IN  IF avail = 0
        THEN [routes |-> retain_active_and_recent_routes(rs, p, now),
              tag |-> "Exhausted", n |-> cap]
        ELSE [routes |-> rs, tag |-> "Ok", n |-> avail]

\* Cache::ensure_can_store / Cache::reserve: the routes left and the result.
ensure_can_store(rs, cap, p, now) ==
    LET avail == cap - len(rs)
    IN  IF avail = 0
        THEN LET swept == retain_active_and_recent_routes(rs, p, now)
                 avail2 == cap - len(swept)
             IN  IF avail2 = 0
                 THEN [routes |-> swept, tag |-> "Exhausted", n |-> cap]
                 ELSE [routes |-> swept, tag |-> "Ok", n |-> avail2]
        ELSE [routes |-> rs, tag |-> "Ok", n |-> avail]

\* Variant: an existing entry is kept (entry().or_insert()).
insert_if_absent(rs, key, node) ==
    [k \in DOMAIN rs \cup {key} |-> IF k \in DOMAIN rs THEN rs[k] ELSE node]

\* Variant: a new key takes the slot of an entry already there.
insert_evicting(rs, key, node) ==
    IF key \in DOMAIN rs \/ DOMAIN rs = {}
    THEN [k \in DOMAIN rs \cup {key} |-> IF k = key THEN node ELSE rs[k]]
    ELSE LET gone == CHOOSE k \in DOMAIN rs : \A j \in DOMAIN rs : k <= j
         IN  [k \in (DOMAIN rs \ {gone}) \cup {key} |->
                 IF k = key THEN node ELSE rs[k]]

\* IndexMap::insert: adds the key or replaces its value.
insert(rs, key, node) ==
    [k \in DOMAIN rs \cup {key} |-> IF k = key THEN node ELSE rs[k]]

\* Variant: the route is inserted without looking at the capacity.
store_unchecked(rs, cap, p, now, key, route) ==
    [routes |-> [k \in DOMAIN rs \cup {key} |->
                    IF k = key THEN [value |-> route, last_access |-> now]
                    ELSE rs[k]],
     tag |-> "Ok", n |-> 0, swept |-> 0, had |-> key \in DOMAIN rs]

\* Cache::store: the routes left, the result, and what happened on the
\* way: how many routes the sweep removed and whether the key was present
\* just before the insertion.
store(rs, cap, p, now, key, route) ==
    LET r == ensure_can_store(rs, cap, p, now)
        swept == len(rs) - len(r.routes)
    IN  IF r.tag = "Exhausted"
        THEN [routes |-> r.routes, tag |-> "Exhausted", n |-> r.n,
              swept |-> swept, had |-> FALSE]
        ELSE [routes |-> insert(r.routes, key, Node(route, now)),
              tag |-> "Ok", n |-> 0,
              swept |-> swept, had |-> key \in DOMAIN r.routes]

\* Variant: the guard's drop puts the node's stamp back to the epoch.
AccessDrop_rewind(node, now) == [node EXCEPT !.last_access = 0]

\* Variant: the guard's release leaves the node as it was.
AccessDrop_keep(node, now) == node

\* Drop for Access / AccessGuard: stamp the node with the clock reading.
AccessDrop(node, now) == [node EXCEPT !.last_access = now]

\* tests::MultiplyAndAssign::call: multiply, and hand out a token with the
\* response.
MulCall(route, n) == active([route EXCEPT !.value = @ * n])

\* Recognize::recognize of the test factory: the request's number is the key.
recognize(req) == IF req = NotRecognizedReq THEN NoKey ELSE req

\* Variant: a failed bind undoes the sweep that made room for the route.
dispatch_rolls_back(rs, cap, p, now, key, req, bindOk) ==
    IF key \in DOMAIN rs
    THEN LET svc == MulCall(rs[key].value, req)
         IN  [routes |-> [rs EXCEPT ![key] =
                             AccessDrop(Node(svc, @.last_access), now)],
              tag |-> "Inner", n |-> svc.value, swept |-> 0,
              locked |-> TRUE, bound |-> FALSE, called |-> TRUE]
    ELSE LET r == ensure_can_store(rs, cap, p, now)
             swept == len(rs) - len(r.routes)
         IN  IF r.tag = "Exhausted"
             THEN [routes |-> r.routes, tag |-> "NoCapacity", n |-> r.n,
                   swept |-> swept,
                   locked |-> TRUE, bound |-> FALSE, called |-> FALSE]
             ELSE IF ~bindOk
             THEN [routes |-> rs, tag |-> "RouteError", n |-> 0,
                   swept |-> swept,
                   locked |-> TRUE, bound |-> TRUE, called |-> FALSE]
             ELSE LET service == MulCall(MultiplyAndAssign(1, 0), req)
                      s == store(r.routes, cap, p, now, key, service)
                  IN  IF s.tag = "Exhausted"
                      THEN [routes |-> s.routes, tag |-> "Panic",
                            n |-> s.n, swept |-> swept + s.swept,
                            locked |-> TRUE, bound |-> TRUE,
                            called |-> TRUE]
                      ELSE [routes |-> s.routes, tag |-> "Inner",
                            n |-> service.value,
                            swept |-> swept + s.swept,
                            locked |-> TRUE, bound |-> TRUE,
                            called |-> TRUE]

\* Router::call once the key is recognized and the cache lock is taken:
\* the cached route, or capacity reserved, a route bound, called and stored.
dispatch(rs, cap, p, now, key, req, bindOk) ==
    IF key \in DOMAIN rs
    THEN LET svc == MulCall(rs[key].value, req)
         IN  [routes |-> [rs EXCEPT ![key] =
                             AccessDrop(Node(svc, @.last_access), now)],
              tag |-> "Inner", n |-> svc.value, swept |-> 0,
              locked |-> TRUE, bound |-> FALSE, called |-> TRUE]
    ELSE LET r == ensure_can_store(rs, cap, p, now)
             swept == len(rs) - len(r.routes)
         IN  IF r.tag = "Exhausted"
             THEN [routes |-> r.routes, tag |-> "NoCapacity", n |-> r.n,
                   swept |-> swept,
                   locked |-> TRUE, bound |-> FALSE, called |-> FALSE]
             ELSE IF ~bindOk
             THEN [routes |-> r.routes, tag |-> "RouteError", n |-> 0,
                   swept |-> swept,
                   locked |-> TRUE, bound |-> TRUE, called |-> FALSE]
             ELSE LET service == MulCall(MultiplyAndAssign(1, 0), req)
                      s == store(r.routes, cap, p, now, key, service)
                  IN  IF s.tag = "Exhausted"
                      THEN [routes |-> s.routes, tag |-> "Panic",
                            n |-> s.n, swept |-> swept + s.swept,
                            locked |-> TRUE, bound |-> TRUE,
                            called |-> TRUE]
                      ELSE [routes |-> s.routes, tag |-> "Inner",
                            n |-> service.value,
                            swept |-> swept + s.swept,
                            locked |-> TRUE, bound |-> TRUE,
                            called |-> TRUE]

\* Variant: the cache lock is taken before the request is recognized.
call_locks_first(rs, cap, p, now, req, bindOk) ==
    LET key == recognize(req)
    IN  IF key = NoKey
        THEN [routes |-> rs, tag |-> "NotRecognized", n |-> 0, swept |-> 0,
              locked |-> TRUE, bound |-> FALSE, called |-> FALSE]
        ELSE dispatch(rs, cap, p, now, key, req, bindOk)

\* Variant: on a miss the route is bound before capacity is reserved.
call_binds_first(rs, cap, p, now, req, bindOk) ==
    LET key == recognize(req)
    IN  IF key = NoKey
        THEN [routes |-> rs, tag |-> "NotRecognized", n |-> 0, swept |-> 0,
              locked |-> FALSE, bound |-> FALSE, called |-> FALSE]
        ELSE IF key \in DOMAIN rs
        THEN LET svc == MulCall(rs[key].value, req)
             IN  [routes |-> [rs EXCEPT ![key] =
                                 AccessDrop(Node(svc, @.last_access), now)],
                  tag |-> "Inner", n |-> svc.value, swept |-> 0,
                  locked |-> TRUE, bound |-> FALSE, called |-> TRUE]
        ELSE IF ~bindOk
        THEN [routes |-> rs, tag |-> "RouteError", n |-> 0, swept |-> 0,
              locked |-> TRUE, bound |-> TRUE, called |-> FALSE]
        ELSE LET service == MulCall(MultiplyAndAssign(1, 0), req)
                 s == store(rs, cap, p, now, key, service)
             IN  IF s.tag = "Exhausted"
                 THEN [routes |-> s.routes, tag |-> "NoCapacity", n |-> s.n,
                       swept |-> s.swept,
                       locked |-> TRUE, bound |-> TRUE, called |-> TRUE]
                 ELSE [routes |-> s.routes, tag |-> "Inner",
                       n |-> service.value, swept |-> s.swept,
                       locked |-> TRUE, bound |-> TRUE, called |-> TRUE]

\* Variant: the cache is not consulted; every recognized request binds.
call_rebinds(rs, cap, p, now, req, bindOk) ==
    LET key == recognize(req)
        r == ensure_can_store(rs, cap, p, now)
        swept == len(rs) - len(r.routes)
        service == MulCall(MultiplyAndAssign(1, 0), req)
        s == store(r.routes, cap, p, now, key, service)
    IN  IF key = NoKey
        THEN [routes |-> rs, tag |-> "NotRecognized", n |-> 0, swept |-> 0,
              locked |-> FALSE, bound |-> FALSE, called |-> FALSE]
        ELSE IF r.tag = "Exhausted"
        THEN [routes |-> r.routes, tag |-> "NoCapacity", n |-> r.n,
              swept |-> swept,
              locked |-> TRUE, bound |-> FALSE, called |-> FALSE]
        ELSE IF ~bindOk
        THEN [routes |-> r.routes, tag |-> "RouteError", n |-> 0,
              swept |-> swept,
              locked |-> TRUE, bound |-> TRUE, called |-> FALSE]
        ELSE [routes |-> s.routes,
              tag |-> IF s.tag = "Exhausted" THEN "Panic" ELSE "Inner",
              n |-> service.value, swept |-> swept + s.swept,
              locked |-> TRUE, bound |-> TRUE, called |-> TRUE]

\* Router::call: the routes left, the future made, the number of routes its
\* sweeps removed, and what it did on the way: took the cache lock, invoked
\* bind_service, handed the request to a handler.
call(rs, cap, p, now, req, bindOk) ==
    LET key == recognize(req)
    IN  IF key = NoKey
        THEN [routes |-> rs, tag |-> "NotRecognized", n |-> 0, swept |-> 0,
              locked |-> FALSE, bound |-> FALSE, called |-> FALSE]
        ELSE dispatch(rs, cap, p, now, key, req, bindOk)

(* ---------------------------------------------------------------------- *)
(* Actions                                                                 *)
(* ---------------------------------------------------------------------- *)
\* The time source advances.
Tick ==
    /\ clock < MaxClock
    /\ clock' = clock + 1
    /\ ret' = NoEvent(len(routes))
    /\ UNCHANGED <<routes, capacity, policy, guard>>
    /\ UNCHANGED aux
    /\ UNCHANGED ext

\* A token is taken from the tracker of the handler cached under k.
Active(k) ==
    /\ k \in DOMAIN routes
    /\ routes[k].value.idle < MaxTokens
    /\ routes' = [routes EXCEPT ![k].value = active(@)]
    /\ ret' = NoEvent(len(routes))
    /\ UNCHANGED <<capacity, policy, clock, guard>>
    /\ UNCHANGED aux
    /\ UNCHANGED ext

\* A token of the handler cached under k is dropped.
DropActive(k) ==
    /\ k \in DOMAIN routes
    /\ routes[k].value.idle > 0
    /\ routes' = [routes EXCEPT ![k].value = ActiveDrop(@)]
    /\ ret' = NoEvent(len(routes))
    /\ UNCHANGED <<capacity, policy, clock, guard>>
    /\ UNCHANGED aux
    /\ UNCHANGED ext

\* Variant: the access refreshes last_access when the guard is handed out.
Access_touch(k) ==
    /\ guard = NoGuard
    /\ IF k \in DOMAIN routes
       THEN /\ guard' = k
            /\ routes' = [routes EXCEPT ![k].last_access = clock]
            /\ ret' = Event("access", k, "Some", routes[k].last_access,
                            len(routes), 0, FALSE, 0)
       ELSE /\ guard' = NoGuard
            /\ routes' = routes
            /\ ret' = Event("access", k, "None", 0, len(routes), 0, FALSE, 0)
    /\ UNCHANGED <<capacity, policy, clock>>
    /\ UNCHANGED aux
    /\ UNCHANGED ext

\* Cache::access
Access(k) ==
    /\ guard = NoGuard
    /\ IF k \in DOMAIN routes
       THEN /\ guard' = k
            /\ ret' = Event("access", k, "Some", routes[k].last_access,
                            len(routes), 0, FALSE, 0)
       ELSE /\ guard' = NoGuard
            /\ ret' = Event("access", k, "None", 0, len(routes), 0, FALSE, 0)
    /\ UNCHANGED <<routes, capacity, policy, clock>>
    /\ UNCHANGED aux
    /\ UNCHANGED ext

\* Drop for AccessGuard
DropGuard ==
    /\ guard # NoGuard
    /\ routes' = [routes EXCEPT ![guard] = AccessDrop(@, clock)]
    /\ guard' = NoGuard
    /\ ret' = Event("drop_guard", guard, "Ok", routes[guard].last_access,
                    len(routes), 0, FALSE, 0)
    /\ UNCHANGED <<capacity, policy, clock>>
    /\ UNCHANGED aux
    /\ UNCHANGED ext

\* Cache::ensure_can_store / Cache::reserve
Reserve ==
    /\ guard = NoGuard
    /\ LET r == ensure_can_store(routes, capacity, policy, clock)
       IN  /\ routes' = r.routes
           /\ ret' = Event("reserve", NoKey, r.tag, r.n, len(routes),
                           len(routes) - len(r.routes), FALSE, 0)
    /\ UNCHANGED <<capacity, policy, clock, guard>>
    /\ UNCHANGED aux
    /\ UNCHANGED ext

\* Cache::store of a handler that has served one request for k; the response
\* (and its token) is still held by the caller or was dropped already.
Store(k, held) ==
    /\ guard = NoGuard
    /\ LET called == MulCall(MultiplyAndAssign(1, 0), k)
           route == IF held THEN called ELSE ActiveDrop(called)
           r == store(routes, capacity, policy, clock, k, route)
       IN  /\ routes' = r.routes
           /\ ret' = Event("store", k, r.tag, r.n, len(routes), r.swept,
                           r.had, IF r.tag = "Ok" THEN route.idle ELSE 0)
    /\ UNCHANGED <<capacity, policy, clock, guard>>
    /\ UNCHANGED aux
    /\ UNCHANGED ext

\* Router::call on the cache as it is, with the factory's bind succeeding
\* or failing, by a caller that holds fewer than limit responses of the
\* route.
Routed(req, bindOk, limit) ==
    /\ req \in DOMAIN routes =>
          /\ routes[req].value.idle < limit
          /\ routes[req].value.value * req <= MaxValue
    /\ LET r == call(routes, capacity, policy, clock, req, bindOk)
       IN  /\ routes' = r.routes
           /\ ret' = [Event("call", recognize(req), r.tag, r.n,
                             len(routes), r.swept, FALSE, 0)
                          EXCEPT !.locked = r.locked, !.bound = r.bound,
                                 !.made = r.bound /\ bindOk,
                                 !.called = r.called]

\* Router::call, next to the cache's own operations: it waits for the cache
\* while a guard borrows it, unless the request is not recognized.
RouterCall(req, bindOk) ==
    /\ recognize(req) # NoKey => guard = NoGuard
    /\ Routed(req, bindOk, MaxTokens)
    /\ UNCHANGED <<capacity, policy, clock, guard>>
    /\ UNCHANGED aux
    /\ UNCHANGED ext

\* Variant: the router is ready only while the cache has a free slot.
poll_ready_with_capacity ==
    IF len(routes) < capacity THEN "Ready" ELSE "NotReady"

\* Router::poll_ready: Ok(Async::Ready(())).
poll_ready == "Ready"

\* Router::poll_ready is called; the cache lock is not asked for.
PollReady ==
    /\ ret' = Event("poll_ready", NoKey, poll_ready, 0, len(routes), 0,
                    FALSE, 0)
    /\ UNCHANGED <<routes, capacity, policy, clock, guard>>
    /\ UNCHANGED aux
    /\ UNCHANGED ext

Next ==
    \/ Tick
    \/ \E k \in Keys : Active(k)
    \/ \E k \in Keys : DropActive(k)
    \/ \E k \in Keys : Access(k)
    \/ DropGuard
    \/ Reserve
    \/ \E k \in Keys, held \in BOOLEAN : Store(k, held)
    \/ \E req \in Requests, bindOk \in BOOLEAN : RouterCall(req, bindOk)
    \/ PollReady

Spec == Init /\ [][Next]_vars

(* ---------------------------------------------------------------------- *)
(* Properties                                                              *)
(* ---------------------------------------------------------------------- *)
Age(node) == clock - node.last_access

\* The policy keeps every route that has a live activity token.
RetainsWhileActive(p) ==
    \/ p[1] \in {"active", "max_idle_age"}
    \/ p[1] = "or" /\ (p[2][1] = "active" \/ p[3][1] = "active")

Sweeps == {"reserve", "store", "call"}

\* C1: the number of routes never exceeds the capacity, whatever sequence of
\* access, store, reserve and call operations, clock advances and token
\* acquisitions and releases has run.
C1_CapacityBound == len(routes) <= capacity

C1_Witness ==
    /\ ret.op = "store" /\ ret.tag = "Ok"
    /\ capacity >= 1 /\ ret.len = capacity /\ len(routes) = capacity

\* C2: under a policy that retains active routes, a sweep run by reserve,
\* store or call never removes or alters a route that has a live token when
\* the operation runs, however old the route is.
C2_ActiveRetained ==
    [][(RetainsWhileActive(policy) /\ ret'.op \in Sweeps) =>
          \A k \in DOMAIN routes :
              routes[k].value.idle > 0 =>
                  /\ k \in DOMAIN routes'
                  /\ k # ret'.key => routes'[k] = routes[k]]_vars

C2_Witness ==
    /\ ret.op = "reserve" /\ ret.tag = "Exhausted"
    /\ policy = MaxIdleAge(0)
    /\ \E k \in DOMAIN routes :
          routes[k].value.idle > 0 /\ Age(routes[k]) > MaxAge

\* C3: with fewer routes than the capacity, reserve returns
\* Ok(capacity - |routes|) and leaves the cache as it was.
C3_ReserveSurplus ==
    [][(ret'.op = "reserve" /\ len(routes) < capacity) =>
          /\ routes' = routes
          /\ ret'.tag = "Ok"
          /\ ret'.n = capacity - len(routes)]_vars

C3_Witness ==
    /\ ret.op = "reserve" /\ ret.tag = "Ok" /\ ret.swept = 0
    /\ policy[1] = "max_idle_age"
    /\ \E k \in DOMAIN routes :
          routes[k].value.idle = 0 /\ Age(routes[k]) > policy[2]

\* C4: on a full cache reserve evaluates every route: the routes left are
\* exactly the ones the policy retains, unchanged; it returns Ok(k) when
\* k >= 1 routes were removed and Exhausted{capacity} when none was.
C4_ReserveSweep ==
    [][(ret'.op = "reserve" /\ len(routes) = capacity) =>
          LET kept == {k \in DOMAIN routes : retain(policy, routes[k], clock)}
              removed == len(routes) - Cardinality(kept)
          IN  /\ DOMAIN routes' = kept
              /\ \A k \in kept : routes'[k] = routes[k]
              /\ IF removed >= 1
                 THEN ret'.tag = "Ok" /\ ret'.n = removed
                 ELSE ret'.tag = "Exhausted" /\ ret'.n = capacity]_vars

C4_Witness ==
    /\ ret.op = "reserve" /\ ret.tag = "Ok" /\ ret.n = 1
    /\ ret.len = 2 /\ ret.swept = 1 /\ len(routes) = 1

\* C5: when reserve or store returns Exhausted, or call resolves to
\* NoCapacity, the cache is exactly as it was before the operation.
C5_ExhaustedUnchanged ==
    [][(\/ ret'.op \in {"reserve", "store"} /\ ret'.tag = "Exhausted"
        \/ ret'.op = "call" /\ ret'.tag = "NoCapacity") =>
          routes' = routes]_vars

C5_Witness ==
    /\ ret.op = "call" /\ ret.tag = "NoCapacity" /\ ret.n = capacity
    /\ capacity >= 1 /\ len(routes) = capacity
    /\ ret.key \notin DOMAIN routes

\* C6: access returns a guard exactly when the key has a route and changes no
\* route; releasing the guard changes nothing but the last_access of the
\* accessed route.
C6_AccessFrame ==
    [][/\ ret'.op = "access" =>
            /\ (ret'.tag = "Some") <=> (ret'.key \in DOMAIN routes)
            /\ guard' = IF ret'.tag = "Some" THEN ret'.key ELSE NoGuard
            /\ routes' = routes
       /\ ret'.op = "drop_guard" =>
            /\ DOMAIN routes' = DOMAIN routes
            /\ \A k \in DOMAIN routes :
                  IF k = ret'.key
                  THEN routes'[k].value = routes[k].value
                  ELSE routes'[k] = routes[k]]_vars

C6_Witness ==
    /\ ret.op = "access" /\ ret.tag = "Some" /\ guard = ret.key
    /\ len(routes) = 2

\* C7: while a guard lives the node's last_access stays what it was when the
\* guard was made, whatever the clock does; right after the release it is
\* the clock reading at the release.
C7_GuardRefresh ==
    [][/\ (guard # NoGuard /\ guard' = guard) =>
            routes'[guard].last_access = routes[guard].last_access
       /\ ret'.op = "drop_guard" =>
            routes'[ret'.key].last_access = clock']_vars

C7_Witness ==
    /\ ret.op = "drop_guard"
    /\ ret.n < clock
    /\ routes[ret.key].last_access = clock

\* C8: store returns Exhausted exactly when the cache is full and every
\* route is retained (also for a key already present: the old route is
\* kept); otherwise the key maps to the new handler, stamped with the clock
\* reading at the store.
C8_Store ==
    [][ret'.op = "store" =>
          LET exhausted ==
                  /\ len(routes) = capacity
                  /\ \A k \in DOMAIN routes : retain(policy, routes[k], clock)
          IN  /\ (ret'.tag = "Exhausted") <=> exhausted
              /\ exhausted => routes' = routes
              /\ ~exhausted =>
                    /\ ret'.tag = "Ok"
                    /\ ret'.key \in DOMAIN routes'
                    /\ routes'[ret'.key] =
                          Node(MultiplyAndAssign(ret'.key, ret'.idle), clock)
         ]_vars

C8_Witness ==
    /\ ret.op = "store" /\ ret.tag = "Exhausted"
    /\ ret.key \in DOMAIN routes
    /\ routes[ret.key].last_access < clock

\* C9 as stated: every successful store leaves one route more than there
\* were just before the insertion, also when the key was already present.
C9_StoreAddsOne ==
    (ret.op = "store" /\ ret.tag = "Ok") =>
        len(routes) = (ret.len - ret.swept) + 1

\* C9: a successful store leaves one route more than there were just before
\* the insertion when the key was absent then, and as many when the key was
\* present (its route is replaced).
C9_StoreAddsOneIfAbsent ==
    (ret.op = "store" /\ ret.tag = "Ok") =>
        len(routes) = (ret.len - ret.swept) + (IF ret.had THEN 0 ELSE 1)

C9_Witness ==
    /\ ret.op = "store" /\ ret.tag = "Ok" /\ ret.had
    /\ len(routes) = ret.len - ret.swept

C11_IdleBoundaryRetained ==
    [][(policy[1] = "max_idle_age" /\ ret'.op \in Sweeps) =>
          \A k \in DOMAIN routes :
              (is_idle(routes[k].value) /\ Age(routes[k]) <= policy[2]) =>
                  k \in DOMAIN routes']_vars

(* ---------------------------------------------------------------------- *)
(* Retention policies applied to a node (retain.rs)                        *)
(* ---------------------------------------------------------------------- *)
\* The policies that And and Or combine.
RetainOperands ==
    {ALWAYS, NEVER, WhileActive} \cup {MaxAccessAge(d) : d \in Ages}

\* The constants and every combination a.and(b), a.or(b).
RetainPolicies ==
    {ALWAYS, NEVER}
      \cup {And(a, b) : a \in RetainOperands, b \in RetainOperands}
      \cup {Or(a, b) : a \in RetainOperands, b \in RetainOperands}

\* A node made at the clock's first reading, and a policy to ask about it.
InitRetain ==
    /\ \E k \in Keys : routes = (k :> Node(MultiplyAndAssign(1, 0), 0))
    /\ capacity = 1
    /\ policy \in RetainPolicies
    /\ clock = 0
    /\ guard = NoGuard
    /\ ret = Event("new", NoKey, "Ok", 0, 1, 0, FALSE, 0)
    /\ actives = NoActives
    /\ future = NoFuture
    /\ sweep = NoSweep
    /\ NoExt

\* Retain::retain(&self, &Node): the policy is asked about the node under k.
Evaluate(k) ==
    /\ guard = NoGuard
    /\ k \in DOMAIN routes
    /\ ret' = Event("retain", k,
                    IF retain(policy, routes[k], clock) THEN "true"
                    ELSE "false",
                    0, len(routes), 0, FALSE, 0)
    /\ UNCHANGED <<routes, capacity, policy, clock, guard>>
    /\ UNCHANGED aux
    /\ UNCHANGED ext

NextRetain ==
    \/ Tick
    \/ \E k \in Keys : Active(k)
    \/ \E k \in Keys : DropActive(k)
    \/ \E k \in Keys : Access(k)
    \/ DropGuard
    \/ \E k \in Keys : Evaluate(k)

SpecRetain == InitRetain /\ [][NextRetain]_vars

\* C12: asked about any node, ALWAYS retains and NEVER does not, a.and(b)
\* retains exactly when a retains and b retains, a.or(b) exactly when a
\* retains or b retains; and asking leaves the node as it was.
C12_PolicyAlgebra ==
    [][ret'.op = "retain" =>
          LET node == routes[ret'.key]
              v == (ret'.tag = "true")
          IN  /\ routes' = routes
              /\ policy = ALWAYS => v
              /\ policy = NEVER => ~v
              /\ policy[1] = "and" =>
                    (v <=> (retain(policy[2], node, clock)
                              /\ retain(policy[3], node, clock)))
              /\ policy[1] = "or" =>
                    (v <=> (retain(policy[2], node, clock)
                              \/ retain(policy[3], node, clock)))]_vars

C12_Witness ==
    /\ ret.op = "retain" /\ ret.tag = "false"
    /\ policy = And(WhileActive, MaxAccessAge(0))
    /\ \E k \in DOMAIN routes :
          routes[k].value.idle > 0 /\ Age(routes[k]) > 0

(* ---------------------------------------------------------------------- *)
(* The idle tracker shared between threads (idle.rs)                       *)
(* ---------------------------------------------------------------------- *)
\* Two handlers, each with its tracker, and threads that hold clones of
\* both trackers and no token yet.
InitIdle ==
    /\ routes = [k \in Keys |-> Node(MultiplyAndAssign(1, 0), 0)]
    /\ capacity = Cardinality(Keys)
    /\ policy = WhileActive
    /\ clock = 0
    /\ guard = NoGuard
    /\ ret = Event("new", NoKey, "Ok", 0, Cardinality(Keys), 0, FALSE, 0)
    /\ actives = NoActives
    /\ future = NoFuture
    /\ sweep = NoSweep
    /\ NoExt

RECURSIVE LiveTokens(_, _)
\* The live tokens of the tracker of k held by the threads of T.
LiveTokens(T, k) ==
    IF T = {} THEN 0
    ELSE LET t == CHOOSE x \in T : TRUE
         IN  actives[t][k] + LiveTokens(T \ {t}, k)

\* Idle::active on thread t's clone of the tracker of k: one atomic
\* fetch_add, and the thread holds the new token.
ThreadActive(t, k) ==
    /\ actives[t][k] < MaxTokens
    /\ routes' = [routes EXCEPT ![k].value = active(@)]
    /\ actives' = [actives EXCEPT ![t][k] = @ + 1]
    /\ ret' = [Event("active", k, "Ok", routes[k].value.idle, len(routes),
                     0, FALSE, 0)
              EXCEPT !.thread = t]
    /\ UNCHANGED <<capacity, policy, clock, guard, future, sweep>>
    /\ UNCHANGED ext

\* Drop for Active on thread t: the token's Arc is taken and one atomic
\* fetch_sub made. The token is one that was live before the sweep in
\* progress began (o = 1) or a later one.
ThreadDrop(t, k) ==
    /\ actives[t][k] > 0
    /\ routes' = [routes EXCEPT ![k].value = ActiveDrop(@)]
    /\ actives' = [actives EXCEPT ![t][k] = @ - 1]
    /\ ret' = [Event("drop_active", k, "Ok", routes[k].value.idle,
                     len(routes), 0, FALSE, 0)
              EXCEPT !.thread = t]
    /\ \E o \in 0..1 :
          /\ o <= sweep.old[k]
          /\ o = 0 => LiveTokens(Threads, k) > sweep.old[k]
          /\ sweep' = [sweep EXCEPT !.old[k] = @ - o]
    /\ UNCHANGED <<capacity, policy, clock, guard, future>>
    /\ UNCHANGED ext

\* A token moves from thread t to thread u (Active is Send: it travels with
\* the response that carries it); the counter is not touched.
ThreadSend(t, u, k) ==
    /\ t # u
    /\ actives[t][k] > 0
    /\ actives[u][k] < MaxTokens
    /\ actives' = [actives EXCEPT ![t][k] = @ - 1, ![u][k] = @ + 1]
    /\ ret' = [Event("send", k, "Ok", routes[k].value.idle, len(routes),
                     0, FALSE, 0)
              EXCEPT !.thread = t]
    /\ UNCHANGED <<routes, capacity, policy, clock, guard, future, sweep>>
    /\ UNCHANGED ext

\* IsIdle::is_idle on thread t: one atomic load.
ThreadIsIdle(t, k) ==
    /\ ret' = [Event("is_idle", k,
                     IF is_idle(routes[k].value) THEN "true" ELSE "false",
                     routes[k].value.idle, len(routes), 0, FALSE, 0)
              EXCEPT !.thread = t]
    /\ UNCHANGED <<routes, capacity, policy, clock, guard>>
    /\ UNCHANGED aux
    /\ UNCHANGED ext

NextIdle ==
    \/ \E t \in Threads, k \in Keys : ThreadActive(t, k)
    \/ \E t \in Threads, k \in Keys : ThreadDrop(t, k)
    \/ \E t \in Threads, u \in Threads, k \in Keys : ThreadSend(t, u, k)
    \/ \E t \in Threads, k \in Keys : ThreadIsIdle(t, k)

SpecIdle == InitIdle /\ [][NextIdle]_vars

\* C13: whatever the threads' interleaving of active() calls and token
\* drops, each tracker's counter equals the number of live tokens made from
\* it and is never negative, a token's drop takes exactly one off the
\* counter, and is_idle() answers true exactly when the counter is 0.
C13_TrackerCount ==
    /\ \A k \in DOMAIN routes :
          /\ routes[k].value.idle = LiveTokens(Threads, k)
          /\ routes[k].value.idle >= 0
    /\ ret.op = "drop_active" => routes[ret.key].value.idle = ret.n - 1
    /\ ret.op = "active" => routes[ret.key].value.idle = ret.n + 1
    /\ ret.op = "is_idle" =>
          ((ret.tag = "true") <=> routes[ret.key].value.idle = 0)

C13_Witness ==
    /\ ret.op = "drop_active"
    /\ \E k \in Keys :
          /\ \A t \in Threads : actives[t][k] > 0
          /\ routes[k].value.idle = MaxThreads * MaxTokens
          /\ ret.key # k
    /\ routes[ret.key].value.idle = 0

(* ---------------------------------------------------------------------- *)
(* The router on its own (router.rs, lib.rs)                               *)
(* ---------------------------------------------------------------------- *)
\* A fresh router of any capacity and policy.
InitRouter ==
    /\ routes = << >>
    /\ capacity \in 0..MaxCapacity
    /\ policy \in Policies
    /\ clock = 0
    /\ guard = NoGuard
    /\ ret = Event("new", NoKey, "Ok", 0, 0, 0, FALSE, 0)
    /\ actives = NoActives
    /\ future = NoFuture
    /\ sweep = NoSweep
    /\ NoExt

\* Router::call by a caller that may still hold earlier responses.
Call(req, bindOk) ==
    /\ Routed(req, bindOk, MaxResponses)
    /\ UNCHANGED <<capacity, policy, clock, guard>>
    /\ UNCHANGED aux
    /\ UNCHANGED ext

NextRouter ==
    \/ Tick
    \/ \E req \in Requests, bindOk \in BOOLEAN : Call(req, bindOk)
    \/ \E k \in Keys : DropActive(k)

SpecRouter == InitRouter /\ [][NextRouter]_vars

(* ---------------------------------------------------------------------- *)
(* Properties of the router's dispatch                                     *)
(* ---------------------------------------------------------------------- *)
\* The policy retains every route of the cache at the current clock reading.
RetainsAll == \A k \in DOMAIN routes : retain(policy, routes[k], clock)

\* The step is a call of the router with a recognized key that is not cached.
CallMisses == ret'.op = "call" /\ ret'.key # NoKey /\ ret'.key \notin DOMAIN routes

\* C14: when the cache is full and the policy retains every route, a call
\* with a key that is not cached makes the future NoCapacity(capacity), and
\* bind_service is not invoked, no handler gets the request and the cache
\* is left as it was.
C14_NoCapacity ==
    [][(CallMisses /\ len(routes) = capacity /\ RetainsAll) =>
          /\ ret'.tag = "NoCapacity" /\ ret'.n = capacity
          /\ ~ret'.bound /\ ~ret'.called
          /\ routes' = routes]_vars

C14_Witness ==
    /\ ret.op = "call" /\ ret.tag = "NoCapacity" /\ ret.n = capacity
    /\ capacity >= 1 /\ len(routes) = capacity
    /\ policy = ALWAYS
    /\ \E k \in DOMAIN routes : routes[k].value.idle = 0

\* C15: when a call with key k took the miss path and stored the handler it
\* bound, the call with key k that follows it directly is served by that
\* handler, whatever the capacity and the policy: bind_service is not
\* invoked again, no sweep runs, and the handler goes on from its state
\* (the first answer is k, the second k * k).
C15_Reuse ==
    [][(ret.op = "call" /\ ret.tag = "Inner" /\ ret.bound
            /\ ret'.op = "call" /\ ret'.key = ret.key) =>
          /\ ret.n = ret.key
          /\ ret'.tag = "Inner" /\ ret'.called
          /\ ~ret'.bound
          /\ ret'.swept = 0 /\ DOMAIN routes' = DOMAIN routes
          /\ ret'.n = ret.n * ret.key
          /\ routes'[ret.key].value.value = ret'.n]_vars

C15_Witness ==
    /\ ret.op = "call" /\ ret.tag = "Inner" /\ ~ret.bound
    /\ ret.key = 2 /\ ret.n = 4
    /\ policy = NEVER /\ len(routes) = capacity
    /\ routes[2].value.idle = 2

\* C16: a request that recognize gives no key for makes the future
\* NotRecognized; the call does not take the cache lock (it also goes
\* through while a guard borrows the cache), does not invoke bind_service
\* and leaves the cache as it was: a fresh router still has no route.
C16_NotRecognized ==
    [][(ret'.op = "call" /\ ret'.key = NoKey) =>
          /\ ret'.tag = "NotRecognized"
          /\ ~ret'.locked /\ ~ret'.bound /\ ~ret'.called
          /\ ret'.swept = 0
          /\ routes' = routes /\ guard' = guard
          /\ ret.op = "new" => len(routes') = 0]_vars

C16_Witness ==
    /\ ret.op = "call" /\ ret.tag = "NotRecognized"
    /\ guard # NoGuard
    /\ len(routes) = capacity
    /\ policy = NEVER

\* The policies that retain a route while it is active or while its age is
\* at most d: the cache's built-in one and retain-while-active.or(max age).
ActiveOrAge ==
    {MaxIdleAge(d) : d \in Ages}
      \cup {Or(WhileActive, MaxAccessAge(d)) : d \in Ages}

\* The age limit of a policy of ActiveOrAge.
AgeLimit(p) == IF p[1] = "max_idle_age" THEN p[2] ELSE p[3][2]

\* C17: with capacity 1 and such a policy, a call with another key gives
\* NoCapacity(1) while the cached route has a live token, however old it
\* is; once the route is idle and older than d, the call evicts it and
\* binds a route for its key, and with the route bound it succeeds and the
\* cache holds its key only (should bind_service fail, the future is
\* RouteError and the cache is empty).
C17_ActivePinBound ==
    [][(capacity = 1 /\ policy \in ActiveOrAge /\ CallMisses) =>
          \A j \in DOMAIN routes :
              /\ routes[j].value.idle > 0 =>
                    /\ ret'.tag = "NoCapacity" /\ ret'.n = 1
                    /\ routes' = routes
              /\ (routes[j].value.idle = 0
                      /\ Age(routes[j]) > AgeLimit(policy)) =>
                    /\ ret'.swept = 1 /\ ret'.bound
                    /\ ret'.made =>
                          ret'.tag = "Inner" /\ DOMAIN routes' = {ret'.key}
                    /\ ~ret'.made =>
                          ret'.tag = "RouteError" /\ DOMAIN routes' = {}]_vars

C17_WitnessEvicted ==
    /\ capacity = 1 /\ policy = Or(WhileActive, MaxAccessAge(0))
    /\ ret.op = "call" /\ ret.tag = "Inner" /\ ret.swept = 1 /\ ret.made
    /\ clock = MaxClock
    /\ DOMAIN routes = {ret.key}

C17_Witness ==
    /\ capacity = 1 /\ policy = Or(WhileActive, MaxAccessAge(0))
    /\ ret.op = "call" /\ ret.tag = "NoCapacity" /\ ret.n = 1
    /\ \E j \in DOMAIN routes :
          routes[j].value.idle > 0 /\ Age(routes[j]) = MaxClock

\* C18: with the policy NEVER and a full cache (of capacity 1 or more), a
\* call with a key that is not cached sweeps every route out, those with
\* live tokens too, and binds a route for its key; the route bound, the call
\* succeeds with the answer of a fresh handler (the key itself: 3, not 6)
\* and the cache holds the new key only (should bind_service fail, the
\* future is RouteError and the cache is empty).
C18_NeverReclaims ==
    [][(policy = NEVER /\ capacity >= 1 /\ len(routes) = capacity
            /\ CallMisses) =>
          /\ ret'.swept = len(routes) /\ ret'.bound
          /\ ret'.made =>
                /\ ret'.tag = "Inner" /\ ret'.n = ret'.key
                /\ DOMAIN routes' = {ret'.key}
                /\ routes'[ret'.key].value = MultiplyAndAssign(ret'.key, 1)
          /\ ~ret'.made =>
                ret'.tag = "RouteError" /\ DOMAIN routes' = {}]_vars

C18_Witness ==
    /\ policy = NEVER /\ capacity >= 1
    /\ ret.op = "call" /\ ret.tag = "Inner" /\ ret.made
    /\ ret.len = capacity /\ ret.swept = capacity
    /\ ret.key = 3 /\ ret.n = 3
    /\ DOMAIN routes = {3}

\* C19: poll_ready can be called in every reachable state, also with the
\* cache full of retained routes or borrowed by a guard, and answers Ready;
\* it does not take the cache lock and leaves the cache as it was.
C19_PollReady ==
    /\ [](ENABLED PollReady)
    /\ [][ret'.op = "poll_ready" =>
             /\ ret'.tag = "Ready"
             /\ ~ret'.locked
             /\ routes' = routes /\ guard' = guard
             /\ capacity' = capacity /\ policy' = policy]_vars

C19_Witness ==
    /\ ret.op = "poll_ready" /\ ret.tag = "Ready"
    /\ capacity >= 1 /\ len(routes) = capacity
    /\ policy = ALWAYS
    /\ guard # NoGuard

(* ---------------------------------------------------------------------- *)
(* The router's response future (router.rs, lib.rs)                        *)
(* ---------------------------------------------------------------------- *)
\* What a handler's future may return to a poll.
InnerPolls == {"Ready", "NotReady", "Err"}

\* Variant: a handler's future that has resolved is taken out of the state.
poll_takes_inner(fut, inner) ==
    CASE fut.state = "Inner" ->
            [future |-> [fut EXCEPT !.polls = @ + 1,
                                    !.resolved = inner # "NotReady",
                                    !.state = IF inner # "NotReady"
                                              THEN "Invalid" ELSE @],
             tag |-> CASE inner = "Ready" -> "Ok(Ready)"
                       [] inner = "NotReady" -> "Ok(NotReady)"
                       [] inner = "Err" -> "Err(Inner)",
             n |-> fut.n]
      [] fut.state = "RouteError" ->
            [future |-> [fut EXCEPT !.polls = @ + 1, !.state = "Invalid"],
             tag |-> "Err(Route)", n |-> fut.n]
      [] fut.state = "NotRecognized" ->
            [future |-> [fut EXCEPT !.polls = @ + 1],
             tag |-> "Err(NotRecognized)", n |-> fut.n]
      [] fut.state = "NoCapacity" ->
            [future |-> [fut EXCEPT !.polls = @ + 1],
             tag |-> "Err(NoCapacity)", n |-> fut.n]
      [] fut.state = "Invalid" ->
            [future |-> [fut EXCEPT !.polls = @ + 1],
             tag |-> "panic", n |-> fut.n]

\* Variant: every terminal error is taken out of the state when it is given.
poll_poisons_all(fut, inner) ==
    CASE fut.state = "Inner" ->
            [future |-> [fut EXCEPT !.polls = @ + 1,
                                    !.resolved = inner # "NotReady"],
             tag |-> CASE inner = "Ready" -> "Ok(Ready)"
                       [] inner = "NotReady" -> "Ok(NotReady)"
                       [] inner = "Err" -> "Err(Inner)",
             n |-> fut.n]
      [] fut.state = "RouteError" ->
            [future |-> [fut EXCEPT !.polls = @ + 1, !.state = "Invalid"],
             tag |-> "Err(Route)", n |-> fut.n]
      [] fut.state = "NotRecognized" ->
            [future |-> [fut EXCEPT !.polls = @ + 1, !.state = "Invalid"],
             tag |-> "Err(NotRecognized)", n |-> fut.n]
      [] fut.state = "NoCapacity" ->
            [future |-> [fut EXCEPT !.polls = @ + 1, !.state = "Invalid"],
             tag |-> "Err(NoCapacity)", n |-> fut.n]
      [] fut.state = "Invalid" ->
            [future |-> [fut EXCEPT !.polls = @ + 1],
             tag |-> "panic", n |-> fut.n]

\* Future for ResponseFuture: poll, with what the handler's future returns
\* when it is asked: the state left and the result.
poll(fut, inner) ==
    CASE fut.state = "Inner" ->
            [future |-> [fut EXCEPT !.polls = @ + 1,
                                    !.resolved = inner # "NotReady"],
             tag |-> CASE inner = "Ready" -> "Ok(Ready)"
                       [] inner = "NotReady" -> "Ok(NotReady)"
                       [] inner = "Err" -> "Err(Inner)",
             n |-> fut.n]
      [] fut.state = "RouteError" ->
            [future |-> [fut EXCEPT !.polls = @ + 1, !.state = "Invalid"],
             tag |-> "Err(Route)", n |-> fut.n]
      [] fut.state = "NotRecognized" ->
            [future |-> [fut EXCEPT !.polls = @ + 1],
             tag |-> "Err(NotRecognized)", n |-> fut.n]
      [] fut.state = "NoCapacity" ->
            [future |-> [fut EXCEPT !.polls = @ + 1],
             tag |-> "Err(NoCapacity)", n |-> fut.n]
      [] fut.state = "Invalid" ->
            [future |-> [fut EXCEPT !.polls = @ + 1],
             tag |-> "panic", n |-> fut.n]

\* A fresh router.
InitFuture ==
    /\ routes = << >>
    /\ capacity \in 0..MaxCapacity
    /\ policy \in {ALWAYS, NEVER}
    /\ clock = 0
    /\ guard = NoGuard
    /\ ret = Event("new", NoKey, "Ok", 0, 0, 0, FALSE, 0)
    /\ actives = NoActives
    /\ future = NoFuture
    /\ sweep = NoSweep
    /\ NoExt

\* Router::call; the caller keeps the future it returns (and lets go of the
\* one it had), and the responses of the route that it has not dropped yet.
CallFuture(req, bindOk) ==
    /\ Routed(req, bindOk, MaxResponses)
    /\ ret'.tag # "Panic"
    /\ future' = State(ret'.tag, ret'.n)
    /\ UNCHANGED <<capacity, policy, clock, guard, actives, sweep>>
    /\ UNCHANGED ext

\* The caller polls its future; a handler's future is polled until it has
\* resolved, and is the only one that asks an inner future.
Poll(inner) ==
    /\ future.state # "None"
    /\ ~future.resolved
    /\ future.polls < MaxPolls
    /\ future.state # "Inner" => inner = "Ready"
    /\ LET r == poll(future, inner)
       IN  /\ future' = r.future
           /\ ret' = [Event("poll", NoKey, r.tag, r.n, len(routes), 0,
                             FALSE, 0)
                          EXCEPT !.inner = IF future.state = "Inner"
                                           THEN inner ELSE "none"]
    /\ UNCHANGED <<routes, capacity, policy, clock, guard, actives, sweep>>
    /\ UNCHANGED ext

NextFuture ==
    \/ \E req \in Requests, bindOk \in BOOLEAN : CallFuture(req, bindOk)
    \/ \E inner \in InnerPolls : Poll(inner)
    \/ \E k \in Keys : DropActive(k)

SpecFuture == InitFuture /\ [][NextFuture]_vars

\* C20: the first poll of a future made as RouteError, NoCapacity(n) or
\* NotRecognized gives Err(Route), Err(NoCapacity(n)) or Err(NotRecognized);
\* a poll of a future in state Inner gives what the handler's future gives,
\* its error as Err(Inner), and leaves the state Inner.
C20_Poll ==
    [][ret'.op = "poll" =>
          /\ (future.state = "RouteError" /\ future.polls = 0) =>
                ret'.tag = "Err(Route)"
          /\ (future.state = "NoCapacity" /\ future.polls = 0) =>
                ret'.tag = "Err(NoCapacity)" /\ ret'.n = capacity
          /\ (future.state = "NotRecognized" /\ future.polls = 0) =>
                ret'.tag = "Err(NotRecognized)"
          /\ future.state = "Inner" =>
                /\ ret'.inner = "Ready" =>
                      ret'.tag = "Ok(Ready)" /\ ret'.n = future.n
                /\ ret'.inner = "NotReady" => ret'.tag = "Ok(NotReady)"
                /\ ret'.inner = "Err" => ret'.tag = "Err(Inner)"
                /\ future'.state = "Inner"]_vars

C20_Witness ==
    /\ ret.op = "poll" /\ ret.tag = "Err(Inner)" /\ ret.inner = "Err"
    /\ future.state = "Inner" /\ future.polls = MaxPolls
    /\ len(routes) = capacity /\ capacity >= 1

\* A future that was made as a terminal error and has given it to a poll.
ResolvedTerminal ==
    /\ future.state \in {"RouteError", "NoCapacity", "NotRecognized",
                         "Invalid"}
    /\ future.polls >= 1

\* C21 as stated: a poll of a terminal error future that has already given
\* its error panics, and only such a future, never one in state Inner,
\* enters Invalid.
C21_RepollPanics ==
    [][ret'.op = "poll" =>
          /\ ResolvedTerminal => ret'.tag = "panic"
          /\ (future'.state = "Invalid" /\ future.state # "Invalid") =>
                future.state \in {"RouteError", "NoCapacity",
                                  "NotRecognized"}]_vars

\* C21: a future made as RouteError enters Invalid when it gives its error
\* and panics when it is polled again; a future made as NoCapacity(n) or
\* NotRecognized keeps its state and gives the same error to every poll;
\* Invalid is entered from RouteError only, never from Inner.
C21_RepollRouteErrorPanics ==
    [][ret'.op = "poll" =>
          /\ future.state = "RouteError" => future'.state = "Invalid"
          /\ future.state = "Invalid" =>
                ret'.tag = "panic" /\ future.polls >= 1
          /\ (future.state = "NoCapacity" /\ future.polls >= 1) =>
                /\ ret'.tag = "Err(NoCapacity)" /\ ret'.n = future.n
                /\ future'.state = "NoCapacity"
          /\ (future.state = "NotRecognized" /\ future.polls >= 1) =>
                /\ ret'.tag = "Err(NotRecognized)"
                /\ future'.state = "NotRecognized"
          /\ (future'.state = "Invalid" /\ future.state # "Invalid") =>
                future.state = "RouteError"]_vars

C21_Witness ==
    /\ ret.op = "poll" /\ ret.tag = "panic"
    /\ future.state = "Invalid" /\ future.polls = MaxPolls

(* ---------------------------------------------------------------------- *)
(* The Single factory, alone and in a router (single.rs)                   *)
(* ---------------------------------------------------------------------- *)
\* single.rs: type Key = (); the one key every request is recognized as.
UnitKey == 2

\* The cache mutex after a thread has panicked while it held the lock.
Poisoned == -1

\* Recognize for Single: recognize
SingleRecognize(req) == UnitKey

\* Variant: the factory hands out a copy of its service at every bind.
bind_service_copies(s) == [single |-> s, tag |-> "Ok"]

\* Recognize for Single: bind_service takes the service out of the Option
\* and panics when it is gone.
bind_service(s) ==
    IF s = "Some" THEN [single |-> "None", tag |-> "Ok"]
                  ELSE [single |-> "None", tag |-> "Panic"]

\* A fresh router over Single::new(MultiplyAndAssign::default()).
InitSingle ==
    /\ routes = << >>
    /\ capacity \in 0..MaxCapacity
    /\ policy \in Policies
    /\ clock = 0
    /\ guard = NoGuard
    /\ ret = Event("new", NoKey, "Ok", 0, 0, 0, FALSE, 0)
    /\ actives = NoActives
    /\ future = NoFuture
    /\ sweep = NoSweep
    /\ single = "Some"
    /\ wrap = NoWrap
    /\ calls = [t \in Threads |-> NoCall]
    /\ lock = NoThread

\* bind_service invoked on the factory once more, whoever does it.
BindService ==
    /\ lock # Poisoned
    /\ LET b == bind_service(single)
       IN  /\ single' = b.single
           /\ ret' = [Event("bind_service", UnitKey, b.tag, 0, len(routes),
                            0, FALSE, 0)
                          EXCEPT !.bound = TRUE, !.made = b.tag = "Ok"]
    /\ UNCHANGED <<routes, capacity, policy, clock, guard, wrap, calls, lock>>
    /\ UNCHANGED aux

\* Router::call on the router over Single; a panic in bind_service unwinds
\* through the lock guard and leaves the mutex poisoned.
SingleCall(req) ==
    /\ lock = NoThread
    /\ SingleRecognize(req) \in DOMAIN routes =>
          /\ routes[SingleRecognize(req)].value.idle < MaxResponses
          /\ routes[SingleRecognize(req)].value.value * req <= MaxValue
    /\ LET key == SingleRecognize(req)
           r == dispatch(routes, capacity, policy, clock, key, req,
                         single = "Some")
           b == IF r.bound THEN bind_service(single)
                           ELSE [single |-> single, tag |-> "None"]
       IN  /\ routes' = r.routes
           /\ single' = b.single
           /\ lock' = IF b.tag = "Panic" THEN Poisoned ELSE lock
           /\ ret' = [Event("call", key,
                            IF b.tag = "Panic" THEN "Panic" ELSE r.tag,
                            r.n, len(routes), r.swept, FALSE, 0)
                          EXCEPT !.locked = r.locked, !.bound = r.bound,
                                 !.made = b.tag = "Ok",
                                 !.called = r.called]
    /\ UNCHANGED <<capacity, policy, clock, guard, wrap, calls>>
    /\ UNCHANGED aux

NextSingle ==
    \/ Tick
    \/ BindService
    \/ \E req \in Keys : SingleCall(req)
    \/ \E k \in Keys : DropActive(k)

SpecSingle == InitSingle /\ [][NextSingle]_vars

\* C22 as stated: every invocation of bind_service yields a handler, on
\* Single as on any factory, whether the router or anyone else invokes it.
C22_BindAgain ==
    [][(ret'.op \in {"bind_service", "call"} /\ ret'.bound) =>
          ret'.made /\ ret'.tag # "Panic"]_vars

\* C22: Single yields its service at the first bind_service and panics at
\* every later one; a call on a router over Single invokes bind_service
\* only on an empty cache, and the route it stores is never evicted (every
\* later call hits, and a hit sweeps nothing), so the router alone does not
\* bind twice.
C22_SingleBindsOnce ==
    [][/\ (ret'.op \in {"bind_service", "call"} /\ ret'.bound) =>
             /\ ret'.made <=> single = "Some"
             /\ ~ret'.made => ret'.tag = "Panic"
             /\ single' = "None"
       /\ (ret'.op = "call" /\ ret'.bound) => routes = << >>
       /\ (ret'.op = "call" /\ ret'.made) =>
             /\ DOMAIN routes' = {UnitKey}
             /\ routes'[UnitKey].value.value = ret'.n
       /\ UnitKey \in DOMAIN routes =>
             /\ UnitKey \in DOMAIN routes'
             /\ ret'.op = "call" => ~ret'.bound /\ ret'.swept = 0]_vars

C22_Witness ==
    /\ ret.op = "bind_service" /\ ret.tag = "Panic"
    /\ UnitKey \in DOMAIN routes
    /\ capacity >= 1 /\ policy = NEVER
    /\ routes[UnitKey].value.idle = 0

(* ---------------------------------------------------------------------- *)
(* The activity wrapper around a handler (http_idle.rs, http_activity.rs)  *)
(* ---------------------------------------------------------------------- *)
\* Variant: the request's token is taken after the inner handler was called.
HttpIdleCall_late(route, n) ==
    [service |-> active([route EXCEPT !.value = @ * n]), seen |-> route.idle]

\* Service for HttpIdle: call.  A token is put into the request, then the
\* inner handler is called with it: the handler after the call, and the
\* count that the tracker shows when the inner handler is entered.
HttpIdleCall(route, n) ==
    LET tracked == active(route)
    IN  [service |-> [tracked EXCEPT !.value = @ * n], seen |-> tracked.idle]

\* Variant: the response's token is taken at every poll.
RespondPoll_eager(route, inner) == active(route)

\* Future for Respond: poll.  try_ready! returns early unless the inner
\* future is ready; then a token is put into the response.
RespondPoll(route, inner) == IF inner = "Ready" THEN active(route) ELSE route

\* Service for HttpIdle: poll_ready
HttpIdlePollReady(inner) == inner

\* The handler that a call finds under the key, or that bind_service makes.
Handler(k) ==
    IF k \in DOMAIN routes THEN routes[k].value ELSE MultiplyAndAssign(1, 0)

\* A fresh router whose factory binds wrapped handlers; its policy retains
\* a route while it is active, or retains none.
InitActivity ==
    /\ routes = << >>
    /\ capacity \in 0..MaxCapacity
    /\ policy \in {WhileActive, MaxIdleAge(0), NEVER}
    /\ clock = 0
    /\ guard = NoGuard
    /\ ret = Event("new", NoKey, "Ok", 0, 0, 0, FALSE, 0)
    /\ actives = NoActives
    /\ future = NoFuture
    /\ sweep = NoSweep
    /\ NoExt

\* What is alive of the handlers' traffic after a call with key k gave tag:
\* a handler that left the cache takes its account with it, a new handler
\* starts a new one, and a call that reached a handler adds a request token
\* and a pending Respond.
Accounted(rs, k, tag) ==
    [j \in Keys |->
        LET was == IF j \in DOMAIN routes /\ j \in DOMAIN rs
                   THEN wrap[j] ELSE NoWrap[j]
        IN  IF j = k /\ tag = "Inner"
            THEN [was EXCEPT !.requests = @ + 1, !.responds = @ + 1]
            ELSE was]

\* Router::call with a recognized request on the router of wrapped handlers.
ActivityCall(req) ==
    /\ req \in DOMAIN routes =>
          /\ routes[req].value.idle < MaxResponses
          /\ routes[req].value.value * req <= MaxValue
    /\ LET r == call(routes, capacity, policy, clock, req, TRUE)
           h == HttpIdleCall(Handler(req), req)
       IN  /\ r.tag # "Panic"
           /\ r.called => r.routes[req].value = h.service
           /\ routes' = r.routes
           /\ wrap' = Accounted(r.routes, req, r.tag)
           /\ ret' = [Event("call", req, r.tag, r.n, len(routes), r.swept,
                            FALSE, IF r.called THEN h.seen ELSE 0)
                          EXCEPT !.locked = r.locked, !.bound = r.bound,
                                 !.made = r.bound, !.called = r.called]
    /\ UNCHANGED <<capacity, policy, clock, guard, single, calls, lock>>
    /\ UNCHANGED aux

\* A Respond future of the handler under k is polled, the inner future
\* answering inner.
PollRespond(k, inner) ==
    /\ k \in DOMAIN routes
    /\ wrap[k].responds > 0
    /\ routes' = [routes EXCEPT ![k].value = RespondPoll(@, inner)]
    /\ wrap' = [wrap EXCEPT
                   ![k].responds = IF inner = "NotReady" THEN @ ELSE @ - 1,
                   ![k].responses = @ + routes'[k].value.idle
                                      - routes[k].value.idle]
    /\ ret' = [Event("respond", k, inner, routes'[k].value.idle,
                     len(routes), 0, FALSE, routes[k].value.idle)
                   EXCEPT !.inner = inner]
    /\ UNCHANGED <<capacity, policy, clock, guard, single, calls, lock>>
    /\ UNCHANGED aux

\* The request of a call has been consumed: its token is dropped.
DropRequest(k) ==
    /\ k \in DOMAIN routes
    /\ wrap[k].requests > 0
    /\ routes' = [routes EXCEPT ![k].value = ActiveDrop(@)]
    /\ wrap' = [wrap EXCEPT ![k].requests = @ - 1]
    /\ ret' = Event("drop_request", k, "Ok", routes'[k].value.idle,
                    len(routes), 0, FALSE, routes[k].value.idle)
    /\ UNCHANGED <<capacity, policy, clock, guard, single, calls, lock>>
    /\ UNCHANGED aux

\* A response has been consumed: its token is dropped.
DropResponse(k) ==
    /\ k \in DOMAIN routes
    /\ wrap[k].responses > 0
    /\ routes' = [routes EXCEPT ![k].value = ActiveDrop(@)]
    /\ wrap' = [wrap EXCEPT ![k].responses = @ - 1]
    /\ ret' = Event("drop_response", k, "Ok", routes'[k].value.idle,
                    len(routes), 0, FALSE, routes[k].value.idle)
    /\ UNCHANGED <<capacity, policy, clock, guard, single, calls, lock>>
    /\ UNCHANGED aux

\* Variant: the request's token stays behind when the future goes.
RespondDrop_leak(route, held) == route

\* A Respond is dropped before it resolved: its fields are dropped, the
\* inner future and the tracker's clone. The inner future drops the request
\* if it still holds it (held), and the request drops its token; Respond
\* itself has no token.
RespondDrop(route, held) == IF held THEN ActiveDrop(route) ELSE route

\* The caller drops the pending ResponseFuture of a call to the handler
\* under k; held says whether the inner future still owns the request.
DropRespond(k, held) ==
    /\ k \in DOMAIN routes
    /\ wrap[k].responds > 0
    /\ held => wrap[k].requests > 0
    /\ routes' = [routes EXCEPT ![k].value = RespondDrop(@, held)]
    /\ wrap' = [wrap EXCEPT
                   ![k].responds = @ - 1,
                   ![k].requests = @ + routes'[k].value.idle
                                     - routes[k].value.idle]
    /\ ret' = Event("drop_respond", k, "Ok", routes'[k].value.idle,
                    len(routes), 0, held, routes[k].value.idle)
    /\ UNCHANGED <<capacity, policy, clock, guard, single, calls, lock>>
    /\ UNCHANGED aux

\* poll_ready of the wrapped handler under k, the inner handler answering
\* inner.
PollReadyWrapped(k, inner) ==
    /\ k \in DOMAIN routes
    /\ ret' = [Event("wrapped_poll_ready", k, HttpIdlePollReady(inner),
                     routes[k].value.idle, len(routes), 0, FALSE,
                     routes[k].value.idle)
                   EXCEPT !.inner = inner]
    /\ UNCHANGED <<routes, capacity, policy, clock, guard>>
    /\ UNCHANGED aux
    /\ UNCHANGED ext

NextActivity ==
    \/ \E req \in Keys : ActivityCall(req)
    \/ \E k \in Keys, inner \in InnerPolls : PollRespond(k, inner)
    \/ \E k \in Keys : DropRequest(k)
    \/ \E k \in Keys : DropResponse(k)
    \/ \E k \in Keys, inner \in InnerPolls : PollReadyWrapped(k, inner)
    \/ \E k \in Keys, held \in BOOLEAN : DropRespond(k, held)

SpecActivity == InitActivity /\ [][NextActivity]_vars

\* Whoever owns a request or a response drops it in the end.
SpecActivityFair ==
    /\ InitActivity
    /\ [][NextActivity]_vars
    /\ \A k \in Keys : WF_vars(DropRequest(k)) /\ WF_vars(DropResponse(k))

\* C23: HttpIdle::call takes one token, which goes with the request, before
\* the inner handler is called; Respond::poll takes one token, which goes
\* with the response, exactly when the inner future is ready, and none while
\* it is pending or when it fails; poll_ready is what the inner handler's
\* poll_ready is, and changes nothing.
C23_Wrapper ==
    [][/\ (ret'.op = "call" /\ ret'.called) =>
             /\ ret'.idle = Handler(ret'.key).idle + 1
             /\ routes'[ret'.key].value.idle = Handler(ret'.key).idle + 1
             /\ wrap'[ret'.key].requests =
                   (IF ret'.key \in DOMAIN routes
                    THEN wrap[ret'.key].requests ELSE 0) + 1
             /\ wrap'[ret'.key].responses =
                   (IF ret'.key \in DOMAIN routes
                    THEN wrap[ret'.key].responses ELSE 0)
       /\ ret'.op = "respond" =>
             /\ ret'.inner = "Ready" =>
                   /\ routes'[ret'.key].value.idle
                         = routes[ret'.key].value.idle + 1
                   /\ wrap'[ret'.key].responses
                         = wrap[ret'.key].responses + 1
             /\ ret'.inner \in {"NotReady", "Err"} =>
                   /\ routes'[ret'.key].value = routes[ret'.key].value
                   /\ wrap'[ret'.key].responses = wrap[ret'.key].responses
             /\ wrap'[ret'.key].requests = wrap[ret'.key].requests
       /\ ret'.op = "wrapped_poll_ready" =>
             ret'.tag = ret'.inner /\ routes' = routes /\ wrap' = wrap]_vars

C23_Witness ==
    /\ ret.op = "respond" /\ ret.inner = "Ready"
    /\ ret.key \in DOMAIN routes
    /\ routes[ret.key].value.idle = 2
    /\ wrap[ret.key].requests = 1 /\ wrap[ret.key].responses = 1

\* The tokens of the wrapped handler under k that are alive.
LiveWrapped(k) == wrap[k].requests + wrap[k].responses

\* C24: a wrapped handler is idle if and only if none of its request tokens
\* and none of its response tokens is alive, and it becomes idle only by the
\* drop of the last of them.
C24_IdleIffNoTokens ==
    /\ [](\A k \in DOMAIN routes :
             is_idle(routes[k].value) <=> LiveWrapped(k) = 0)
    /\ [][\A k \in DOMAIN routes \cap DOMAIN routes' :
             (~is_idle(routes[k].value) /\ is_idle(routes'[k].value)) =>
                /\ ret'.op \in {"drop_request", "drop_response",
                                "drop_respond"}
                /\ ret'.key = k
                /\ LiveWrapped(k) = 1]_vars

C24_Witness ==
    /\ ret.op = "drop_request"
    /\ wrap[ret.key].requests = 0 /\ wrap[ret.key].responses = 1
    /\ ~is_idle(routes[ret.key].value)

\* C25 as stated: under a policy that retains active routes, a route with a
\* call in flight (a Respond future of its handler not yet resolved) is not
\* idle and is not evicted by any call.
C25_InFlightPinned ==
    [][\A k \in DOMAIN routes :
          (RetainsWhileActive(policy) /\ wrap[k].responds > 0) =>
             /\ ~is_idle(routes[k].value)
             /\ k \in DOMAIN routes']_vars

(* ---------------------------------------------------------------------- *)
(* Router::call step by step, on clones of a router (router.rs, lib.rs)    *)
(* ---------------------------------------------------------------------- *)
\* Variant: the new route is stored before the request is sent on it.
MissPath_store_first == <<"reserve", "bind", "store", "call", "return">>

\* Router::call after a miss, statement by statement: cache.reserve(),
\* bind_service(&key), service.call(request), cache.store(key, service),
\* and the return.
MissPath == <<"reserve", "bind", "call", "store", "return">>

\* The statement that follows pc on the miss path.
After(pc) ==
    MissPath[(CHOOSE i \in 1..(Len(MissPath) - 1) : MissPath[i] = pc) + 1]

\* Variant: lock() does not wait for the holder.
MutexFree_always(l) == TRUE

\* Mutex::lock goes through when no thread holds the mutex.
MutexFree(l) == l = NoThread

\* Variant: the lock guard is dropped once capacity is reserved.
Release_after_reserve(l, pc) ==
    IF pc \in {"idle", "bind"} THEN NoThread ELSE l

\* Variant: the lock guard is dropped once the access guard is there.
Release_at_hit(l, pc) == IF pc \in {"idle", "hit"} THEN NoThread ELSE l

\* Variant: the lock guard is dropped after a miss.
Release_after_miss(l, pc) == IF pc \in {"idle", "reserve"} THEN NoThread ELSE l

\* Variant: the lock guard is forgotten, never dropped.
Release_never(l, pc) == l

\* The mutex after a statement of call that leads to pc: the lock guard
\* lives until call returns.
Release(l, pc) == IF pc = "idle" THEN NoThread ELSE l

\* Variant: the handler is called twice for a request.
SvcCall_twice(route, n) == MulCall(MulCall(route, n), n)

\* svc.call(request) / service.call(request) of Router::call
SvcCall(route, n) == MulCall(route, n)

\* What a statement of the call of thread t leaves in ret.
Stmt(t, op, tag, n, swept, had) ==
    [Event(op, recognize(calls[t].req), tag, n, len(routes), swept, had, 0)
        EXCEPT !.thread = t]

\* The calls of other threads with the same request that are under way.
Others(t, req) ==
    Cardinality({u \in Threads \ {t} :
                    calls[u].pc # "idle" /\ calls[u].req = req})

\* A fresh router and its clones, one per thread.
InitClones ==
    /\ routes = << >>
    /\ capacity \in 0..MaxCapacity
    /\ policy \in {ALWAYS, NEVER, MaxIdleAge(0)}
    /\ clock = 0
    /\ guard = NoGuard
    /\ ret = Event("new", NoKey, "Ok", 0, 0, 0, FALSE, 0)
    /\ actives = NoActives
    /\ future = NoFuture
    /\ sweep = NoSweep
    /\ NoExt

\* Thread t enters call(req) on its clone: the request is recognized, or
\* call returns a NotRecognized future at once.  A thread calls only while
\* the handler's value and tokens stay within the bounds.
Enter(t, req) ==
    /\ calls[t].pc = "idle"
    /\ recognize(req) # NoKey =>
          /\ Handler(req).value * (req ^ (Others(t, req) + 1)) <= MaxValue
          /\ Handler(req).idle + Others(t, req) < MaxResponses
    /\ IF recognize(req) = NoKey
       THEN /\ calls' = calls
            /\ ret' = [Event("call.return", NoKey, "NotRecognized", 0,
                             len(routes), 0, FALSE, 0) EXCEPT !.thread = t]
       ELSE /\ calls' = [calls EXCEPT ![t] =
                           [pc |-> "lock", req |-> req,
                            service |-> NoService, tag |-> "None"]]
            /\ ret' = [Event("call.recognize", recognize(req), "Ok", 0,
                             len(routes), 0, FALSE, 0) EXCEPT !.thread = t]
    /\ UNCHANGED <<routes, capacity, policy, clock, guard, single, wrap,
                   lock>>
    /\ UNCHANGED aux

\* self.cache.lock()
LockStep(t) ==
    /\ calls[t].pc = "lock"
    /\ MutexFree(lock)
    /\ lock' = t
    /\ calls' = [calls EXCEPT ![t].pc = "access"]
    /\ ret' = Stmt(t, "call.lock", "Ok", 0, 0, FALSE)
    /\ UNCHANGED <<routes, capacity, policy, clock, guard, single, wrap>>
    /\ UNCHANGED aux

\* cache.access(&key): a guard over the cached route, or a miss.  With the
\* guard the thread notes the handler as it finds it.
AccessStep(t) ==
    /\ calls[t].pc = "access"
    /\ LET key == recognize(calls[t].req)
           pc == IF key \in DOMAIN routes THEN "hit" ELSE MissPath[1]
       IN  /\ guard' = IF key \in DOMAIN routes THEN key ELSE guard
           /\ calls' = [calls EXCEPT
                           ![t].pc = pc,
                           ![t].service = IF key \in DOMAIN routes
                                          THEN routes[key].value ELSE @]
           /\ lock' = Release(lock, pc)
           /\ ret' = Stmt(t, "call.access",
                          IF key \in DOMAIN routes THEN "Some" ELSE "None",
                          0, 0, FALSE)
    /\ UNCHANGED <<routes, capacity, policy, clock, single, wrap>>
    /\ UNCHANGED aux

\* svc.call(request) through the guard.
HitCallStep(t) ==
    /\ calls[t].pc = "hit"
    /\ LET key == recognize(calls[t].req)
       IN  /\ routes' = [routes EXCEPT ![key].value =
                                          SvcCall(@, calls[t].req)]
           /\ calls' = [calls EXCEPT ![t].pc = "return",
                                     ![t].tag = "Inner"]
           /\ lock' = Release(lock, "return")
           /\ ret' = Stmt(t, "call.svc", "Inner", routes'[key].value.value,
                          0, FALSE)
    /\ UNCHANGED <<capacity, policy, clock, guard, single, wrap>>
    /\ UNCHANGED aux

\* cache.reserve(): capacity for a new route, or the call gives NoCapacity.
ReserveStep(t) ==
    /\ calls[t].pc = "reserve"
    /\ LET r == ensure_can_store(routes, capacity, policy, clock)
           pc == IF r.tag = "Exhausted" THEN "return" ELSE After("reserve")
       IN  /\ routes' = r.routes
           /\ calls' = [calls EXCEPT
                           ![t].pc = pc,
                           ![t].tag = IF r.tag = "Exhausted"
                                      THEN "NoCapacity" ELSE @]
           /\ lock' = Release(lock, pc)
           /\ ret' = Stmt(t, "call.reserve",
                          IF r.tag = "Exhausted" THEN "NoCapacity" ELSE "Ok",
                          r.n, len(routes) - len(r.routes), FALSE)
    /\ UNCHANGED <<capacity, policy, clock, guard, single, wrap>>
    /\ UNCHANGED aux

\* self.recognize.bind_service(&key): a new handler, or the call gives
\* RouteError.
BindStep(t, bindOk) ==
    /\ calls[t].pc = "bind"
    /\ LET pc == IF bindOk THEN After("bind") ELSE "return"
       IN  /\ calls' = [calls EXCEPT
                           ![t].pc = pc,
                           ![t].service = IF bindOk
                                          THEN MultiplyAndAssign(1, 0)
                                          ELSE NoService,
                           ![t].tag = IF bindOk THEN @ ELSE "RouteError"]
           /\ lock' = Release(lock, pc)
           /\ ret' = [Stmt(t, "call.bind",
                           IF bindOk THEN "Ok" ELSE "RouteError", 0, 0,
                           FALSE)
                         EXCEPT !.bound = TRUE, !.made = bindOk]
    /\ UNCHANGED <<routes, capacity, policy, clock, guard, single, wrap>>
    /\ UNCHANGED aux

\* service.call(request) on the handler that was just bound.
ServiceCallStep(t) ==
    /\ calls[t].pc = "call"
    /\ LET service == SvcCall(calls[t].service, calls[t].req)
       IN  /\ calls' = [calls EXCEPT ![t].pc = After("call"),
                                     ![t].service = service]
           /\ lock' = Release(lock, After("call"))
           /\ ret' = Stmt(t, "call.service", "Inner", service.value, 0,
                          FALSE)
    /\ UNCHANGED <<routes, capacity, policy, clock, guard, single, wrap>>
    /\ UNCHANGED aux

\* cache.store(key, service).expect("cache capacity"): the thread panics
\* with the lock held when the cache has no room after all.
StoreStep(t) ==
    /\ calls[t].pc = "store"
    /\ LET key == recognize(calls[t].req)
           s == store(routes, capacity, policy, clock, key, calls[t].service)
           pc == IF s.tag = "Exhausted" THEN "panicked" ELSE After("store")
       IN  /\ routes' = s.routes
           /\ calls' = [calls EXCEPT
                           ![t].pc = pc,
                           ![t].tag = IF s.tag = "Exhausted"
                                      THEN "Panic" ELSE "Inner"]
           /\ lock' = IF pc = "panicked" THEN Poisoned ELSE Release(lock, pc)
           /\ ret' = [Stmt(t, "call.store",
                           IF s.tag = "Exhausted" THEN "Panic" ELSE "Ok",
                           s.n, s.swept, s.had)
                         EXCEPT !.idle = calls[t].service.idle]
    /\ UNCHANGED <<capacity, policy, clock, guard, single, wrap>>
    /\ UNCHANGED aux

\* call returns its future: the access guard, if there is one, is dropped
\* and stamps the route, then the lock guard is dropped.
ReturnStep(t) ==
    /\ calls[t].pc = "return"
    /\ routes' = IF guard = NoGuard THEN routes
                 ELSE [routes EXCEPT ![guard] = AccessDrop(@, clock)]
    /\ guard' = NoGuard
    /\ calls' = [calls EXCEPT ![t] = NoCall]
    /\ lock' = Release(lock, "idle")
    /\ ret' = [Stmt(t, "call.return", calls[t].tag,
                    CASE calls[t].tag = "NoCapacity" -> capacity
                      [] calls[t].tag = "Inner" /\ guard # NoGuard
                            -> routes[guard].value.value
                      [] calls[t].tag = "Inner" /\ guard = NoGuard
                            -> calls[t].service.value
                      [] OTHER -> 0,
                    0, guard # NoGuard)
                  EXCEPT !.locked = TRUE]
    /\ UNCHANGED <<capacity, policy, clock, single, wrap>>
    /\ UNCHANGED aux

\* The statements of call that thread t executes once it has the lock.
Proceed(t) ==
    \/ AccessStep(t)
    \/ HitCallStep(t)
    \/ ReserveStep(t)
    \/ \E bindOk \in BOOLEAN : BindStep(t, bindOk)
    \/ ServiceCallStep(t)
    \/ StoreStep(t)
    \/ ReturnStep(t)

\* What the threads and the owners of responses do.
NextCalls ==
    \/ \E k \in Keys : DropActive(k)
    \/ \E t \in Threads, req \in Requests : Enter(t, req)
    \/ \E t \in Threads : LockStep(t)
    \/ \E t \in Threads : Proceed(t)

NextClones ==
    \/ Tick
    \/ NextCalls

SpecClones == InitClones /\ [][NextClones]_vars

\* The statements of call between lock() and the return.
Locked == {"access", "hit", "reserve", "bind", "call", "store", "return"}

\* The thread that made the last statement.
Stepper == ret'.thread

\* C26: after a miss the thread keeps the lock from reserve to the return
\* and goes from reserve to bind_service, to service.call, to store: a key
\* enters the cache only by the store of the thread that bound its handler,
\* and the handler it stores has already been sent the request.
C26_MissOrder ==
    /\ [](\A t \in Threads :
             calls[t].pc \in {"reserve", "bind", "call", "store"} =>
                lock = t /\ recognize(calls[t].req) \notin DOMAIN routes)
    /\ [][/\ (ret'.op = "call.reserve" /\ ret'.tag = "Ok") =>
                calls'[Stepper].pc = "bind"
          /\ (ret'.op = "call.bind" /\ ret'.made) =>
                calls[Stepper].pc = "bind" /\ calls'[Stepper].pc = "call"
          /\ ret'.op = "call.service" =>
                calls[Stepper].pc = "call" /\ calls'[Stepper].pc = "store"
          /\ ret'.op = "call.store" =>
                calls[Stepper].pc = "store" /\ calls'[Stepper].pc = "return"
          /\ \A k \in Keys :
                (k \notin DOMAIN routes /\ k \in DOMAIN routes') =>
                   /\ ret'.op = "call.store" /\ ret'.key = k
                   /\ lock = Stepper /\ lock' = Stepper
                   /\ routes'[k].value =
                         MulCall(MultiplyAndAssign(1, 0),
                                 calls[Stepper].req)]_vars

C26_Witness ==
    /\ ret.op = "call.store" /\ ret.tag = "Ok"
    /\ routes[ret.key].value.idle = 1
    /\ lock = ret.thread
    /\ \E u \in Threads \ {ret.thread} :
          calls[u].pc = "lock" /\ calls[u].req = calls[ret.thread].req

C28_StoreSucceeds ==
    /\ [](lock # Poisoned /\ \A t \in Threads : calls[t].pc # "panicked")
    /\ [][ret'.op = "call.store" =>
             /\ ret'.tag = "Ok" /\ ret'.swept = 0
             /\ len(routes) < capacity
             /\ len(routes') = len(routes) + 1]_vars

C28_Witness ==
    /\ ret.op = "call.store" /\ ret.tag = "Ok"
    /\ len(routes) = capacity /\ capacity = MaxCapacity
    /\ \E u \in Threads \ {ret.thread} : calls[u].pc = "lock"

\* C30: on a hit the thread calls the cached handler once, through the
\* guard, and then returns: no reserve, bind or store, no entry removed;
\* the guard is released at the return, after the handler's call, and
\* stamps the entry with the clock's reading at that moment.
C30_Hit ==
    /\ [](\A t \in Threads :
             calls[t].pc \in {"hit", "return"} /\ calls[t].tag # "NoCapacity"
             /\ calls[t].tag # "RouteError" /\ guard # NoGuard =>
                guard = recognize(calls[t].req) /\ guard \in DOMAIN routes)
    /\ [][/\ (ret'.op = "call.access" /\ ret'.tag = "Some") =>
                guard' = ret'.key /\ routes' = routes
          /\ ret'.op = "call.svc" =>
                /\ calls[Stepper].pc = "hit"
                /\ calls'[Stepper].pc = "return"
                /\ DOMAIN routes' = DOMAIN routes
                /\ routes'[ret'.key].last_access
                      = routes[ret'.key].last_access
                /\ routes'[ret'.key].value
                      = MulCall(routes[ret'.key].value, calls[Stepper].req)
          /\ ret'.op \in {"call.reserve", "call.bind", "call.service",
                          "call.store"} => guard = NoGuard
          /\ (ret'.op = "call.return" /\ ret'.had) =>
                /\ ret'.tag = "Inner"
                /\ DOMAIN routes' = DOMAIN routes
                /\ routes'[ret'.key].last_access = clock
                /\ routes'[ret'.key].value = routes[ret'.key].value
                /\ routes'[ret'.key].value.value
                      = calls[Stepper].service.value * calls[Stepper].req
                /\ ret'.n = routes'[ret'.key].value.value
                /\ \A k \in DOMAIN routes \ {ret'.key} :
                      routes'[k] = routes[k]
                /\ guard' = NoGuard /\ lock' = NoThread]_vars

C30_Witness ==
    /\ ret.op = "call.return" /\ ret.had /\ ret.n = 4
    /\ routes[ret.key].last_access = clock /\ clock = MaxClock
    /\ len(routes) = 2

\* The calls under way go on: every thread that holds the lock executes its
\* next statement, and a thread that waits in lock() gets the mutex at some
\* point when it is free again and again.  The clock stands still: its
\* reading decides what a sweep removes, not whether a statement is made.
SpecClonesFair ==
    /\ InitClones
    /\ [][NextCalls]_vars
    /\ \A t \in Threads : WF_vars(Proceed(t)) /\ SF_vars(LockStep(t))

\* Some call under way can make its next statement.
CallSteps == \E t \in Threads : LockStep(t) \/ Proceed(t)

C31_BindFailure ==
    [][/\ (ret'.op = "call" /\ ret'.bound /\ ~ret'.made) =>
             /\ ret'.tag = "RouteError" /\ ~ret'.called
             /\ future'.state = "RouteError"
             /\ ret'.key \notin DOMAIN routes'
             /\ routes' = ensure_can_store(routes, capacity, policy,
                                           clock).routes
             /\ DOMAIN routes' \subseteq DOMAIN routes
             /\ \A k \in DOMAIN routes' : routes'[k] = routes[k]
             /\ len(routes') = len(routes) - ret'.swept
             /\ len(routes') < capacity
       /\ (ret'.op = "poll" /\ future.state = "RouteError") =>
             ret'.tag = "Err(Route)" /\ routes' = routes]_vars

C31_Witness ==
    /\ ret.op = "call" /\ ret.tag = "RouteError" /\ ret.bound
    /\ ret.swept = 1 /\ routes = << >>
    /\ capacity = 1 /\ future.state = "RouteError"

(* The retention sweep beside token holders on other threads *)

InitSweep ==
    /\ routes = [k \in Keys |-> Node(MultiplyAndAssign(1, 0), 0)]
    /\ capacity = Cardinality(Keys)
    /\ policy \in {WhileActive, MaxIdleAge(0)}
    /\ clock = 0
    /\ guard = NoGuard
    /\ ret = Event("new", NoKey, "Ok", 0, Cardinality(Keys), 0, FALSE, 0)
    /\ actives = NoActives
    /\ future = NoFuture
    /\ sweep = NoSweep
    /\ NoExt

\* ensure_can_store on thread t finds no slot free and enters
\* retain_active_and_recent_routes: the clock is read and the retain loop
\* is about to visit every entry.
SweepBegin(t) ==
    /\ sweep.by = NoThread
    /\ len(routes) = capacity
    /\ sweep' = [by |-> t, todo |-> DOMAIN routes,
                 began |-> [k \in Keys |-> LiveTokens(Threads, k)],
                 old |-> [k \in Keys |-> LiveTokens(Threads, k)]]
    /\ ret' = [Event("sweep.begin", NoKey, "Ok", 0, len(routes), 0, FALSE, 0)
              EXCEPT !.thread = t]
    /\ UNCHANGED <<routes, capacity, policy, clock, guard, actives, future>>
    /\ UNCHANGED ext

\* The closure variant that decides from the tokens seen when the sweep
\* began.
SweepEntry_snapshot(k) ==
    /\ sweep.by # NoThread
    /\ k \in sweep.todo
    /\ LET keep == sweep.began[k] > 0
       IN  /\ routes' = IF keep THEN routes
                        ELSE [j \in DOMAIN routes \ {k} |-> routes[j]]
           /\ ret' = [Event("sweep.entry", k,
                            IF keep THEN "kept" ELSE "evicted",
                            routes[k].value.idle, len(routes),
                            IF keep THEN 0 ELSE 1, FALSE, sweep.old[k])
                     EXCEPT !.thread = sweep.by]
    /\ sweep' = [sweep EXCEPT !.todo = @ \ {k}]
    /\ UNCHANGED <<capacity, policy, clock, guard, actives, future>>
    /\ UNCHANGED ext

\* One turn of the retain loop: the closure is evaluated on the entry under
\* k, reading its tracker's counter with one atomic load, and the entry is
\* kept or removed.
SweepEntry(k) ==
    /\ sweep.by # NoThread
    /\ k \in sweep.todo
    /\ LET keep == retain(policy, routes[k], clock)
       IN  /\ routes' = IF keep THEN routes
                        ELSE [j \in DOMAIN routes \ {k} |-> routes[j]]
           /\ ret' = [Event("sweep.entry", k,
                            IF keep THEN "kept" ELSE "evicted",
                            routes[k].value.idle, len(routes),
                            IF keep THEN 0 ELSE 1, FALSE, sweep.old[k])
                     EXCEPT !.thread = sweep.by]
    /\ sweep' = [sweep EXCEPT !.todo = @ \ {k}]
    /\ UNCHANGED <<capacity, policy, clock, guard, actives, future>>
    /\ UNCHANGED ext

\* The retain loop is over and ensure_can_store counts the free slots.
SweepEnd ==
    /\ sweep.by # NoThread
    /\ sweep.todo = {}
    /\ sweep' = NoSweep
    /\ ret' = [Event("sweep.end", NoKey,
                     IF len(routes) < capacity THEN "Ok" ELSE "Exhausted",
                     capacity - len(routes), len(routes), 0, FALSE, 0)
              EXCEPT !.thread = sweep.by]
    /\ UNCHANGED <<routes, capacity, policy, clock, guard, actives, future>>
    /\ UNCHANGED ext

\* The thread inside the retain loop does nothing else; the others make,
\* pass on and drop tokens of the cached handlers at any moment.
NextSweep ==
    \/ \E t \in Threads : SweepBegin(t)
    \/ \E k \in Keys : SweepEntry(k)
    \/ SweepEnd
    \/ \E t \in Threads \ {sweep.by}, k \in DOMAIN routes :
          LiveTokens(Threads, k) < MaxTokens /\ ThreadActive(t, k)
    \/ \E t \in Threads \ {sweep.by}, k \in DOMAIN routes : ThreadDrop(t, k)
    \/ \E t \in Threads \ {sweep.by}, u \in Threads, k \in DOMAIN routes :
          ThreadSend(t, u, k)

SpecSweep == InitSweep /\ [][NextSweep]_vars

\* C32: a token made before a retention sweep begins and dropped after it
\* ends is seen as live by that sweep, whichever threads hold the token and
\* run the sweep: the entry is kept when the loop reaches it and is still
\* cached when the sweep ends. The loop decides from the counter as it is
\* when the entry's turn comes, so an entry whose tokens were all dropped
\* (on any thread) before its turn is removed.
C32_HeldAcrossSweep ==
    /\ [](\A k \in Keys : sweep.old[k] <= LiveTokens(Threads, k))
    /\ [][/\ ret'.op = "sweep.entry" =>
                /\ sweep.old[ret'.key] > 0 =>
                      ret'.tag = "kept" /\ ret'.key \in DOMAIN routes'
                /\ (ret'.tag = "evicted") <=>
                      LiveTokens(Threads, ret'.key) = 0
                /\ (ret'.tag = "evicted") <=> ret'.key \notin DOMAIN routes'
          /\ ret'.op = "sweep.end" =>
                \A k \in Keys : sweep.old[k] > 0 => k \in DOMAIN routes']_vars

\* The sweep on one thread has kept the entry of 2, whose token another
\* thread has held since before the sweep, and removed the entry of 3,
\* whose token was live when the sweep began and dropped before its turn.
C32_Witness ==
    /\ ret.op = "sweep.entry" /\ ret.key = 3 /\ ret.tag = "evicted"
    /\ sweep.began[3] = 1
    /\ 2 \in DOMAIN routes /\ 2 \notin sweep.todo /\ sweep.old[2] = 1
    /\ \E u \in Threads : u # sweep.by /\ actives[u][2] = 1

C34_LastAccessMonotone ==
    /\ [](\A k \in DOMAIN routes : routes[k].last_access <= clock)
    /\ [][/\ clock' >= clock
          /\ \A k \in DOMAIN routes \cap DOMAIN routes' :
                /\ routes'[k].last_access >= routes[k].last_access
                /\ routes'[k].last_access # routes[k].last_access =>
                      /\ ret'.key = k
                      /\ routes'[k].last_access = clock
                      /\ \/ ret'.op = "drop_guard"
                         \/ ret'.op = "store" /\ ret'.tag = "Ok"
                         \/ ret'.op = "call" /\ ret'.tag = "Inner"]_vars

\* A guard over an entry stored at 0 is released at 2, and the entry's
\* stamp goes from 0 to 2.
C34_Witness ==
    /\ ret.op = "drop_guard" /\ ret.n = 0
    /\ clock = 2
    /\ routes[ret.key].last_access = 2

\* The threads whose call holds an access guard.
GuardHolders == {t \in Threads : calls[t].pc = "hit"}

\* C35: at most one access guard is alive at a time; the guard is over a
\* cached entry and belongs to the thread that holds the cache, and while
\* it is alive no access, reserve (with its sweep) or store runs on the
\* cache and no entry leaves it, so no sweep meets an entry under a guard.
C35_OneGuard ==
    /\ [](Cardinality(GuardHolders) <= 1)
    /\ [](guard # NoGuard =>
             /\ guard \in DOMAIN routes
             /\ lock \in Threads
             /\ calls[lock].pc \in {"hit", "return"}
             /\ recognize(calls[lock].req) = guard)
    /\ [](\A t \in GuardHolders : guard = recognize(calls[t].req))
    /\ [][guard # NoGuard =>
             /\ ret'.op \notin {"call.lock", "call.access", "call.reserve",
                                "call.store"}
             /\ DOMAIN routes' = DOMAIN routes
             /\ guard' # guard => ret'.op = "call.return" /\ ret'.had]_vars

\* One thread holds the guard over a route while another thread's call
\* waits for the cache.
C35_Witness ==
    /\ guard # NoGuard
    /\ lock \in GuardHolders
    /\ \E u \in Threads \ {lock} : calls[u].pc = "lock"

\* C36: a handler leaves the router's cache only in the sweep of a reserve
\* that found the cache full, and only when the retention predicate
\* rejected it; a call's store is made under a key that is not cached, adds
\* that one entry and replaces or removes none.
C36_LeavesBySweepOnly ==
    [][/\ \A k \in DOMAIN routes \ DOMAIN routes' :
             /\ ret'.op = "call.reserve"
             /\ len(routes) = capacity
             /\ ~retain(policy, routes[k], clock)
       /\ ret'.op = "call.store" =>
             /\ ret'.key \notin DOMAIN routes
             /\ ~ret'.had
             /\ DOMAIN routes' = DOMAIN routes \cup {ret'.key}
             /\ \A j \in DOMAIN routes : routes'[j] = routes[j]
       /\ ret'.op = "call.reserve" =>
             \A k \in DOMAIN routes' : routes'[k] = routes[k]]_vars

\* A reserve on the full cache of one has removed the idle route that an
\* earlier call had stored, on behalf of a call for the other key.
C36_Witness ==
    /\ ret.op = "call.reserve" /\ ret.swept = 1 /\ ret.key = 3
    /\ capacity = 1 /\ routes = << >>
    /\ policy = MaxIdleAge(0)

(* Panics under the cache lock *)

\* Variant: a mutex without poisoning, which a panicking holder just
\* unlocks.
Unwind_unlocks(l) == NoThread

\* Drop for MutexGuard while its thread is panicking: the mutex is
\* unlocked and marked poisoned.
Unwind(l) == Poisoned

\* bind_service, service.call or svc.call panics in the call of thread t:
\* the stack unwinds, the access guard (if any) is dropped and stamps its
\* route, and the lock guard is dropped by a panicking thread.
PanicStep(t) ==
    /\ calls[t].pc \in {"hit", "bind", "call"}
    /\ routes' = IF guard = NoGuard THEN routes
                 ELSE [routes EXCEPT ![guard] = AccessDrop(@, clock)]
    /\ guard' = NoGuard
    /\ calls' = [calls EXCEPT ![t].pc = "panicked", ![t].tag = "Panic"]
    /\ lock' = Unwind(lock)
    /\ ret' = Stmt(t, "call.panic", "Panic", 0, 0, guard # NoGuard)
    /\ UNCHANGED <<capacity, policy, clock, single, wrap>>
    /\ UNCHANGED aux

\* self.cache.lock().expect("router lock") on a poisoned mutex: lock()
\* returns Err and expect panics; the mutex stays poisoned.
LockPoisonedStep(t) ==
    /\ calls[t].pc = "lock"
    /\ lock = Poisoned
    /\ calls' = [calls EXCEPT ![t].pc = "panicked", ![t].tag = "Panic"]
    /\ ret' = Stmt(t, "call.lock", "Panic", 0, 0, FALSE)
    /\ UNCHANGED <<routes, capacity, policy, clock, guard, single, wrap,
                   lock>>
    /\ UNCHANGED aux

\* The clones' calls, with handlers and a factory that may panic.
NextPoison ==
    \/ NextCalls
    \/ \E t \in Threads : PanicStep(t)
    \/ \E t \in Threads : LockPoisonedStep(t)

SpecPoison == InitClones /\ [][NextPoison]_vars

\* The threads whose call has panicked.
Panicked == {t \in Threads : calls[t].pc = "panicked"}

\* C37: a panic of bind_service or of the handler's call happens with the
\* cache lock held and leaves the mutex poisoned for good; from then on
\* every call that reaches the lock, on whichever clone, panics there and
\* no statement behind the lock runs again, while a call whose request is
\* not recognized still returns NotRecognized.
C37_Poisoned ==
    /\ [](Panicked # {} => lock = Poisoned)
    /\ [](\A t \in Threads :
             calls[t].pc = "idle" => ENABLED Enter(t, NotRecognizedReq))
    /\ [][/\ ret'.op = "call.panic" =>
                /\ lock = ret'.thread
                /\ lock' = Poisoned
          /\ lock = Poisoned =>
                /\ lock' = Poisoned
                /\ ret'.op \notin {"call.access", "call.svc", "call.reserve",
                                   "call.bind", "call.service", "call.store",
                                   "call.panic"}
                /\ ret'.op = "call.lock" =>
                      /\ ret'.tag = "Panic"
                      /\ calls'[ret'.thread].pc = "panicked"
                /\ ret'.op = "call.return" =>
                      ret'.tag = "NotRecognized" /\ ~ret'.locked
                /\ DOMAIN routes' = DOMAIN routes]_vars

\* After the call of one thread panicked under the lock, the call of
\* another thread has panicked at the lock.
C37_Witness ==
    /\ lock = Poisoned
    /\ ret.op = "call.lock" /\ ret.tag = "Panic"
    /\ Panicked = Threads

(* The arithmetic of the sweep *)

\* An Instant is a machine integer of ticks since an origin near the start
\* of the clock; the build's representation is signed or unsigned.
Representable(signed) ==
    IF signed THEN -(2 ^ (InstantBits - 1)) .. (2 ^ (InstantBits - 1)) - 1
    ELSE 0 .. (2 ^ InstantBits) - 1

\* A Duration is wider than the span of an Instant.
Durations == 0 .. 2 ^ InstantBits

\* Sub<Duration> for Instant panics when the point in time now - d cannot
\* be represented.
InstantSubPanics(now, d, signed) == InstantSub(now, d) \notin Representable(signed)

\* The sweep that ensure_can_store runs when no slot is free panics in its
\* subtraction: cache.rs computes the cut-off once, before the retain loop,
\* and MaxAccessAge::retain computes it at each entry it is asked about.
SweepPanics(rs, cap, p, now, signed) ==
    /\ len(rs) = cap
    /\ CASE p[1] = "max_idle_age" -> InstantSubPanics(now, p[2], signed)
         [] p[1] = "age" -> rs # << >> /\ InstantSubPanics(now, p[2], signed)
         [] OTHER -> FALSE

\* A cache with a max age of any Duration.
InitArith ==
    /\ routes = << >>
    /\ capacity \in 0..MaxCapacity
    /\ policy \in {MaxIdleAge(d) : d \in Durations}
                     \cup {MaxAccessAge(d) : d \in Durations}
    /\ clock = 0
    /\ guard = NoGuard
    /\ ret = Event("new", NoKey, "Ok", 0, 0, 0, FALSE, 0)
    /\ actives = NoActives
    /\ future = NoFuture
    /\ sweep = NoSweep
    /\ NoExt

\* The operation op unwinds from the sweep's subtraction; the cut-off comes
\* before any removal, so the routes are as they were.
SweepPanic(op, k) ==
    /\ guard = NoGuard
    /\ ret' = Event(op, k, "Panic", 0, len(routes), 0, FALSE, 0)
    /\ UNCHANGED <<routes, capacity, policy, clock, guard>>
    /\ UNCHANGED aux
    /\ UNCHANGED ext

\* Cache::ensure_can_store, on a build whose Instant is signed or not.
ReserveArith(signed) ==
    IF SweepPanics(routes, capacity, policy, clock, signed)
    THEN SweepPanic("reserve", NoKey)
    ELSE Reserve

\* Cache::store, on a build whose Instant is signed or not.
StoreArith(k, held, signed) ==
    IF SweepPanics(routes, capacity, policy, clock, signed)
    THEN SweepPanic("store", k)
    ELSE Store(k, held)

NextArith ==
    \/ Tick
    \/ \E signed \in BOOLEAN : ReserveArith(signed)
    \/ \E k \in Keys, held \in BOOLEAN, signed \in BOOLEAN :
          StoreArith(k, held, signed)
    \/ \E k \in Keys : DropActive(k)

SpecArith == InitArith /\ [][NextArith]_vars

\* C38 as stated: the subtractions of ensure_can_store are defined in every
\* reachable state: capacity - len does not underflow, a store on a cache
\* of capacity 0 returns Exhausted{0}, and the sweep's cut-off now - max age
\* is computed for every clock reading and every max age, so that no
\* reserve or store panics.
C38_ArithmeticDefined ==
    /\ [](len(routes) <= capacity)
    /\ [][/\ ret'.op \in {"reserve", "store"} => ret'.tag # "Panic"
          /\ (ret'.op = "store" /\ capacity = 0) =>
                ret'.tag = "Exhausted" /\ ret'.n = 0]_vars

(* activity.rs: the two-counter tracker *)

\* Activity: the two atomic counters.
Activity(p, a) == [pending_requests |-> p, active_responses |-> a]

\* AtomicUsize::load: a load has no Release or AcqRel ordering, and panics
\* when asked for one.
load(v, order) ==
    IF order \in {"Release", "AcqRel"} THEN [tag |-> "Panic", n |-> 0]
    ELSE [tag |-> "Ok", n |-> v]

\* Activity::pending_requests
pending_requests(a) == load(a.pending_requests, "Release")

\* Activity::active_responses
active_responses(a) == load(a.active_responses, "Release")

\* TrackActivity::pending_request: fetch_add(1) on pending_requests.
pending_request(a) == [a EXCEPT !.pending_requests = @ + 1]

\* TrackActivity::active_response: fetch_add(1) on active_responses.
active_response(a) == [a EXCEPT !.active_responses = @ + 1]

\* Drop for PendingRequest: fetch_sub(1) on pending_requests.
PendingRequestDrop(a) == [a EXCEPT !.pending_requests = @ - 1]

\* Drop for ActiveResponse: fetch_sub(1) on active_responses.
ActiveResponseDrop(a) == [a EXCEPT !.active_responses = @ - 1]

\* The tokens of the two kinds that a thread holds.
Tokens(p, a) == [requests |-> p, responses |-> a]

\* One handler, whose tracker is shared by the threads; no token is out.
InitTrack ==
    /\ routes = [k \in {UnitKey} |-> Node(Activity(0, 0), 0)]
    /\ capacity = 1
    /\ policy = ALWAYS
    /\ clock = 0
    /\ guard = NoGuard
    /\ ret = Event("new", NoKey, "Ok", 0, 1, 0, FALSE, 0)
    /\ actives = [t \in Threads |-> [k \in {UnitKey} |-> Tokens(0, 0)]]
    /\ future = NoFuture
    /\ sweep = NoSweep
    /\ NoExt

\* What a step of thread t on the tracker leaves in ret: the operation,
\* what it returned, and the two counters as it found them.
Tracked(t, op, r) ==
    [Event(op, UnitKey, r.tag, r.n, 1, 0, FALSE,
           routes[UnitKey].value.active_responses)
        EXCEPT !.thread = t]

\* Thread t takes a PendingRequest from its clone of the tracker.
TakePendingRequest(t) ==
    /\ actives[t][UnitKey].requests < MaxTokens
    /\ routes' = [routes EXCEPT ![UnitKey].value = pending_request(@)]
    /\ actives' = [actives EXCEPT ![t][UnitKey].requests = @ + 1]
    /\ ret' = Tracked(t, "pending_request",
                      [tag |-> "Ok",
                       n |-> routes[UnitKey].value.pending_requests])
    /\ UNCHANGED <<capacity, policy, clock, guard, future, sweep>>
    /\ UNCHANGED ext

\* Thread t takes an ActiveResponse from its clone of the tracker.
TakeActiveResponse(t) ==
    /\ actives[t][UnitKey].responses < MaxTokens
    /\ routes' = [routes EXCEPT ![UnitKey].value = active_response(@)]
    /\ actives' = [actives EXCEPT ![t][UnitKey].responses = @ + 1]
    /\ ret' = Tracked(t, "active_response",
                      [tag |-> "Ok",
                       n |-> routes[UnitKey].value.pending_requests])
    /\ UNCHANGED <<capacity, policy, clock, guard, future, sweep>>
    /\ UNCHANGED ext

\* Thread t drops a PendingRequest.
DropPendingRequest(t) ==
    /\ actives[t][UnitKey].requests > 0
    /\ routes' = [routes EXCEPT ![UnitKey].value = PendingRequestDrop(@)]
    /\ actives' = [actives EXCEPT ![t][UnitKey].requests = @ - 1]
    /\ ret' = Tracked(t, "drop_pending_request",
                      [tag |-> "Ok",
                       n |-> routes[UnitKey].value.pending_requests])
    /\ UNCHANGED <<capacity, policy, clock, guard, future, sweep>>
    /\ UNCHANGED ext

\* Thread t drops an ActiveResponse.
DropActiveResponse(t) ==
    /\ actives[t][UnitKey].responses > 0
    /\ routes' = [routes EXCEPT ![UnitKey].value = ActiveResponseDrop(@)]
    /\ actives' = [actives EXCEPT ![t][UnitKey].responses = @ - 1]
    /\ ret' = Tracked(t, "drop_active_response",
                      [tag |-> "Ok",
                       n |-> routes[UnitKey].value.pending_requests])
    /\ UNCHANGED <<capacity, policy, clock, guard, future, sweep>>
    /\ UNCHANGED ext

\* Thread t reads the number of pending requests.
ReadPendingRequests(t) ==
    /\ ret' = Tracked(t, "pending_requests",
                      pending_requests(routes[UnitKey].value))
    /\ UNCHANGED <<routes, capacity, policy, clock, guard>>
    /\ UNCHANGED aux
    /\ UNCHANGED ext

\* Thread t reads the number of active responses.
ReadActiveResponses(t) ==
    /\ ret' = Tracked(t, "active_responses",
                      active_responses(routes[UnitKey].value))
    /\ UNCHANGED <<routes, capacity, policy, clock, guard>>
    /\ UNCHANGED aux
    /\ UNCHANGED ext

NextTrack ==
    \/ \E t \in Threads : TakePendingRequest(t)
    \/ \E t \in Threads : TakeActiveResponse(t)
    \/ \E t \in Threads : DropPendingRequest(t)
    \/ \E t \in Threads : DropActiveResponse(t)
    \/ \E t \in Threads : ReadPendingRequests(t)
    \/ \E t \in Threads : ReadActiveResponses(t)

SpecTrack == InitTrack /\ [][NextTrack]_vars

RECURSIVE LiveOf(_, _)
\* The live tokens of a kind (1: PendingRequest, 2: ActiveResponse) that
\* the threads of T hold.
LiveOf(T, kind) ==
    IF T = {} THEN 0
    ELSE LET t == CHOOSE x \in T : TRUE
             held == actives[t][UnitKey]
         IN  (IF kind = 1 THEN held.requests ELSE held.responses)
                + LiveOf(T \ {t}, kind)

\* The counters are the numbers of live tokens, and a token's making or drop
\* moves its own counter by one and leaves the other.
CountersExact ==
    /\ [](/\ routes[UnitKey].value.pending_requests = LiveOf(Threads, 1)
          /\ routes[UnitKey].value.active_responses = LiveOf(Threads, 2))
    /\ [][LET a == routes[UnitKey].value
              b == routes'[UnitKey].value
              dp == b.pending_requests - a.pending_requests
              da == b.active_responses - a.active_responses
          IN  /\ ret'.op = "pending_request" => dp = 1 /\ da = 0
              /\ ret'.op = "drop_pending_request" => dp = -1 /\ da = 0
              /\ ret'.op = "active_response" => dp = 0 /\ da = 1
              /\ ret'.op = "drop_active_response" => dp = 0 /\ da = -1
              /\ ret'.op \in {"pending_requests", "active_responses"} =>
                    dp = 0 /\ da = 0]_vars

\* C39 as stated: for a tracker shared by threads, under any interleaving,
\* the counters are the numbers of live tokens of each kind, a token's
\* making or drop changes its own counter only and by one, and
\* pending_requests() and active_responses() return these numbers without
\* failing.
C39_TrackActivity ==
    /\ CountersExact
    /\ [][/\ ret'.op = "pending_requests" =>
                /\ ret'.tag = "Ok"
                /\ ret'.n = routes[UnitKey].value.pending_requests
          /\ ret'.op = "active_responses" =>
                /\ ret'.tag = "Ok"
                /\ ret'.n = routes[UnitKey].value.active_responses]_vars

====
